---------------------------- MODULE Spec2Model ----------------------------
(***************************************************************************)
(* Hydraulic network solver of siphonicad: class Calculations              *)
(* (lib/calculations) and its caller computeRowsFromComponents             *)
(* (components/calculate).                                                 *)
(*                                                                         *)
(* Conventions of the translation                                          *)
(*   - JavaScript arrays are sequences; an array index i of the source is  *)
(*     position i + 1 here.  Values that are array LENGTHS (the ids given  *)
(*     to synthetic nodes, pairCount) are unchanged.                       *)
(*   - null / undefined of an optional numeric field is Null.              *)
(*   - every component record carries the ghost field `src`: the position  *)
(*     in the caller's array of the component it was copied from, 0 for a  *)
(*     node synthesised by the solver.  No definition that models code     *)
(*     reads it; it only lets properties speak about "the row derived from *)
(*     input component k".                                                 *)
(*   - floating point: integers and small rationals are exact (records     *)
(*     [num, den]; den = 0 encodes +Infinity / -Infinity / NaN as IEEE 754 *)
(*     division produces them).  V, Re and f involve pi and ln; they are   *)
(*     kept as sign classes "zero" / "pos".  di is kept in micrometres.    *)
(*   - vp, ktotal, delta_H and delta_P are exact in three units that are   *)
(*     not rational multiples of each other: 1 (metres of elevation), c    *)
(*     (the velocity head of Q = 1 in a pipe of d = 100, which holds pi    *)
(*     and g) and c * G(d, Q), where G(d, Q) = f / di is the friction atom *)
(*     of a pipe of diameter d carrying Q (f holds a logarithm).  A value  *)
(*     is [one, c, cF]: rational coefficients of 1, of c and of each       *)
(*     c * G(d, Q) that occurs; ktotal is [minor, major] with major the    *)
(*     coefficient L of the row's own G.                                   *)
(***************************************************************************)
EXTENDS Integers, Sequences, FiniteSets

VARIABLES
    components,           \* the caller's component array (EquationsComponent[])
    canonicalComponents,  \* Calculations.canonicalComponents
    teeFilled,            \* organize: value of fillTee(components)
    capacityFilled,       \* organize: value of fillCapacity(fillTee(components))
    filledComponents,     \* Calculations.filledComponents
    candidates,           \* splitByOutlet: local `result` before de-duplication
    byOutlet,             \* organize: value of splitByOutlet(filled)
    organized,            \* constructor: b, the paths with reducers
    rows,                 \* Calculations.rows, the value toRows() returns
    threw,                \* whether the constructor raised an exception
    memo,                 \* a caller's cache entry: one list and the rows it got
    supabaseAdmin,        \* lib/supabaseAdmin: TRUE when the client exists
    projects,             \* rows of the projects table
    dbCalls,              \* queries sent to the database so far
    request,              \* the last request handled by /api/projects
    response,             \* the response it was given
    nodes,                \* IsometricCanvas: nodes
    edges,                \* IsometricCanvas: edges
    componentOrder,       \* IsometricCanvas: componentOrder
    currentNodeId,        \* IsometricCanvas: the node a segment is drawn from
    drawingEnabled,       \* IsometricCanvas: drawing mode
    nextId,               \* IsometricCanvas: nextIdRef.current
    pendingReducerIds,    \* IsometricCanvas: split nodes not yet branched from
    selected,             \* IsometricCanvas: selectedNodeId / selectedEdgeId
    undoSnapshot,         \* IsometricCanvas: undoSnapshotRef.current
    redoSnapshot,         \* IsometricCanvas: redoSnapshotRef.current
    deleteSees,           \* state captured by the closure of handleDeleteSelected
    log,                  \* ghost: what the last edits and key presses did
    hasRedirected,        \* AuthCallbackInner: hasRedirected.current
    handleAuthAt,         \* AuthCallbackInner: where handleAuth() stands
    redirecting,          \* AuthCallbackInner: where redirectUser() stands
    subscription,         \* AuthCallbackInner: the auth state listener
    timeoutId,            \* AuthCallbackInner: the fallback timer
    pushed,               \* router.push calls of this mount, in order
    cleanedUp,            \* the effect cleanup has run
    link,                 \* the magic link: code parameter, organization code
    authEvents,           \* auth events delivered to the listener so far
    session               \* the session the auth client holds: "none" or "user"

apiVars == <<supabaseAdmin, projects, dbCalls, request, response>>

solverVars == <<components, canonicalComponents, teeFilled, capacityFilled,
                filledComponents, candidates, byOutlet, organized, rows, threw>>

canvasVars == <<nodes, edges, componentOrder, currentNodeId, drawingEnabled,
                nextId, pendingReducerIds, selected, undoSnapshot,
                redoSnapshot, deleteSees, log>>

authVars == <<hasRedirected, handleAuthAt, redirecting, subscription,
              timeoutId, pushed, cleanedUp, link, authEvents, session>>

vars == <<components, canonicalComponents, teeFilled, capacityFilled,
          filledComponents, candidates, byOutlet, organized, rows, threw,
          memo, supabaseAdmin, projects, dbCalls, request, response,
          canvasVars, authVars>>

---------------------------------------------------------------------------
(* Bounds of the model and the input alphabet.                             *)

\* longest component array the caller hands to the solver
MaxLen == 5

\* null / undefined of an optional field
Null == -1

Max(a, b) == IF a >= b THEN a ELSE b
Min(a, b) == IF a <= b THEN a ELSE b

\* EquationsComponent.  id, fromId, toId, draw_index and src are filled in
\* when the component is placed in the array (see Place).
Comp(kind, type, x, y, diameter, length, capacity, tee_ref) ==
    [component |-> kind, id |-> 0, type |-> type, fromId |-> Null,
     toId |-> Null, x |-> x, y |-> y, diameter |-> diameter,
     length |-> length, capacity |-> capacity, tee_ref |-> tee_ref,
     draw_index |-> Null, vertical |-> FALSE, src |-> 0]

\* The input alphabet: a discharge, a generic tee, an outlet with a demand,
\* an outlet without capacity that already carries a branch reference, and
\* pipes without attributes or with one of two diameters.  Columns: kind,
\* type, x, y, diameter, length, capacity, tee_ref.
NodeChoices ==
    { Comp("node", "discharge", 0, 0, Null, Null, Null, Null),
      Comp("node", "tee",       0, 1, Null, Null, Null, Null),
      Comp("node", "outlet",    0, 2, Null, Null, 2,    Null),
      Comp("node", "outlet",    1, 1, Null, Null, Null, 1) }

PipeChoices ==
    { Comp("edge", "pipe", Null, Null, Null, Null, Null, Null),
      Comp("edge", "pipe", Null, Null, 50,   1,    Null, Null),
      Comp("edge", "pipe", Null, Null, 100,  2,    Null, Null) }

\* A component placed at position pos of the caller's array: ids are unique,
\* a pipe runs from the component drawn before it to the one drawn after it
\* (which may be missing or may be no node).
Place(c, pos) ==
    [c EXCEPT !.id = pos, !.src = pos,
              !.fromId = IF c.component = "edge" THEN pos - 1 ELSE Null,
              !.toId   = IF c.component = "edge" THEN pos + 1 ELSE Null]

---------------------------------------------------------------------------
(* Array helpers.                                                          *)

\* positions of s whose element satisfies Test, in increasing order
Indexes(s, Test(_)) ==
    LET S == {i \in 1..Len(s) : Test(s[i])}
    IN  [k \in 1..Cardinality(S) |->
            CHOOSE i \in S : Cardinality({j \in S : j < i}) = k - 1]

\* Array.prototype.findIndex; 0 when nothing is found (-1 in the source)
FindIndex(s, Test(_)) ==
    IF \E i \in 1..Len(s) : Test(s[i])
    THEN CHOOSE i \in 1..Len(s) :
            Test(s[i]) /\ \A j \in 1..(i - 1) : ~Test(s[j])
    ELSE 0

\* result.splice(pos, 0, e) with pos the 0-based index: e lands after the
\* first pos elements
InsertAfter(s, pos, e) ==
    SubSeq(s, 1, pos) \o <<e>> \o SubSeq(s, pos + 1, Len(s))

Reverse(s) == [i \in 1..Len(s) |-> s[Len(s) + 1 - i]]

IsNumber(v) == v /= Null

---------------------------------------------------------------------------
(* fillTee                                                                 *)

\* step 1: plain "tee" becomes "tee_main" with a tee_ref
RECURSIVE normalizeTees(_, _, _)
normalizeTees(s, i, nextTeeRef) ==
    IF i > Len(s) THEN s
    ELSE IF s[i].type = "tee"
         THEN IF s[i].tee_ref = Null
              THEN normalizeTees(
                     [s EXCEPT ![i].tee_ref = nextTeeRef, ![i].type = "tee_main"],
                     i + 1, nextTeeRef + 1)
              ELSE normalizeTees(
                     [s EXCEPT ![i].type = "tee_main"],
                     i + 1, Max(nextTeeRef, s[i].tee_ref + 1))
         ELSE normalizeTees(s, i + 1, nextTeeRef)

IsTeeMain(c) == c.type = "tee_main"
IsOutlet(c) == c.type = "outlet"
IsPipe(c) == c.type = "pipe"

teeIndexesOf(s) == Indexes(s, IsTeeMain)
outletIndexesOf(s) == Indexes(s, IsOutlet)

\* a pairing that overwrites the reference an outlet already has
pairOutletsOverwriting(s) ==
    LET teeIndexes == teeIndexesOf(s)
        outletIndexes == outletIndexesOf(s)
        pairCount == Min(Len(teeIndexes), Len(outletIndexes))
    IN  [i \in 1..Len(s) |->
            IF \E k \in 1..pairCount :
                   /\ outletIndexes[k] = i
                   /\ s[teeIndexes[k]].tee_ref /= Null
            THEN LET k == CHOOSE k \in 1..pairCount : outletIndexes[k] = i
                 IN  [s[i] EXCEPT !.tee_ref = s[teeIndexes[k]].tee_ref]
            ELSE s[i]]

\* step 2: the k-th outlet takes the k-th tee_main's tee_ref if it has none
pairOutlets(s) ==
    LET teeIndexes == teeIndexesOf(s)
        outletIndexes == outletIndexesOf(s)
        pairCount == Min(Len(teeIndexes), Len(outletIndexes))
    IN  [i \in 1..Len(s) |->
            IF \E k \in 1..pairCount :
                   /\ outletIndexes[k] = i
                   /\ s[i].tee_ref = Null
                   /\ s[teeIndexes[k]].tee_ref /= Null
            THEN LET k == CHOOSE k \in 1..pairCount : outletIndexes[k] = i
                 IN  [s[i] EXCEPT !.tee_ref = s[teeIndexes[k]].tee_ref]
            ELSE s[i]]

\* step 3, local isPipeVertical(arr, idx): the array neighbours of the pipe
\* have the same x
isPipeVertical(arr, idx) ==
    IF idx - 1 < 1 \/ idx + 1 > Len(arr) THEN FALSE
    ELSE IF arr[idx - 1].x = Null \/ arr[idx + 1].x = Null THEN FALSE
    ELSE arr[idx - 1].x = arr[idx + 1].x

\* nearest pipe before / after position idx; 0 when there is none
beforePipeIdxOf(s, idx) ==
    IF \E i \in 1..(idx - 1) : IsPipe(s[i])
    THEN CHOOSE i \in 1..(idx - 1) :
            IsPipe(s[i]) /\ \A j \in (i + 1)..(idx - 1) : ~IsPipe(s[j])
    ELSE 0

afterPipeIdxOf(s, idx) ==
    IF \E i \in (idx + 1)..Len(s) : IsPipe(s[i])
    THEN CHOOSE i \in (idx + 1)..Len(s) :
            IsPipe(s[i]) /\ \A j \in (idx + 1)..(i - 1) : ~IsPipe(s[j])
    ELSE 0

\* the synthetic elbow90 spliced after the tee at position idx
elbow90After(s, idx) ==
    [component |-> "node", id |-> Len(s), type |-> "elbow90",
     fromId |-> s[idx].id,
     toId |-> IF idx + 1 <= Len(s) THEN s[idx + 1].id ELSE Null,
     x |-> s[idx].x, y |-> s[idx].y, diameter |-> Null, length |-> Null,
     capacity |-> Null, tee_ref |-> s[idx].tee_ref, draw_index |-> Null,
     vertical |-> FALSE, src |-> 0]

needsElbow90(s, idx) ==
    LET beforePipeIdx == beforePipeIdxOf(s, idx)
        afterPipeIdx == afterPipeIdxOf(s, idx)
    IN  /\ beforePipeIdx /= 0
        /\ afterPipeIdx /= 0
        /\ isPipeVertical(s, beforePipeIdx) /= isPipeVertical(s, afterPipeIdx)

\* step 3: loop over teeIndexes (taken before any splice) with indexOffset
RECURSIVE insertElbows(_, _, _, _)
insertElbows(s, teeIndexes, k, indexOffset) ==
    IF k > Len(teeIndexes) THEN s
    ELSE LET idx == teeIndexes[k] + indexOffset
         IN  IF needsElbow90(s, idx)
             THEN insertElbows(InsertAfter(s, idx, elbow90After(s, idx)),
                               teeIndexes, k + 1, indexOffset + 1)
             ELSE insertElbows(s, teeIndexes, k + 1, indexOffset)

HasTeeRefOutlet(c) == c.type = "outlet" /\ c.tee_ref /= Null

\* steps 4-5 without the look at what already follows the outlet
insertTeeSideAlways(s, outletIndex) ==
    InsertAfter(
        InsertAfter(s, outletIndex,
            [component |-> "node", id |-> Len(s), type |-> "tee_side",
             fromId |-> s[outletIndex].id, toId |-> Null,
             x |-> s[outletIndex].x, y |-> s[outletIndex].y, diameter |-> Null,
             length |-> Null, capacity |-> Null,
             tee_ref |-> s[outletIndex].tee_ref,
             draw_index |-> s[outletIndex].draw_index,
             vertical |-> FALSE, src |-> 0]),
        outletIndex + 1,
        [component |-> "node", id |-> Len(s) + 2, type |-> "elbow45",
         fromId |-> Len(s), toId |-> Null,
         x |-> s[outletIndex].x, y |-> s[outletIndex].y, diameter |-> Null,
         length |-> Null, capacity |-> Null,
         tee_ref |-> s[outletIndex].tee_ref, draw_index |-> Null,
         vertical |-> FALSE, src |-> 0])

\* steps 4-5 for one outlet at position outletIndex
insertTeeSide(s, outletIndex) ==
    LET outlet == s[outletIndex]
        hasNext == outletIndex + 1 <= Len(s)
    IN  IF hasNext /\ s[outletIndex + 1].type = "tee_side"
                   /\ s[outletIndex + 1].tee_ref = outlet.tee_ref
        THEN s
        ELSE LET teeSide ==
                   [component |-> "node", id |-> Len(s), type |-> "tee_side",
                    fromId |-> outlet.id,
                    toId |-> IF hasNext THEN s[outletIndex + 1].id ELSE Null,
                    x |-> outlet.x, y |-> outlet.y, diameter |-> Null,
                    length |-> Null, capacity |-> Null,
                    tee_ref |-> outlet.tee_ref,
                    draw_index |-> outlet.draw_index,
                    vertical |-> FALSE, src |-> 0]
                 elbow45 ==
                   [component |-> "node", id |-> Len(s) + 2, type |-> "elbow45",
                    fromId |-> teeSide.id, toId |-> teeSide.toId,
                    x |-> teeSide.x, y |-> teeSide.y, diameter |-> Null,
                    length |-> Null, capacity |-> Null,
                    tee_ref |-> teeSide.tee_ref, draw_index |-> Null,
                    vertical |-> FALSE, src |-> 0]
             IN  InsertAfter(InsertAfter(s, outletIndex, teeSide),
                             outletIndex + 1, elbow45)

\* steps 4-5: outlets with a tee_ref, last one first
RECURSIVE insertTeeSides(_, _, _)
insertTeeSides(s, outletIndexesWithTeeRef, k) ==
    IF k < 1 THEN s
    ELSE insertTeeSides(insertTeeSide(s, outletIndexesWithTeeRef[k]),
                        outletIndexesWithTeeRef, k - 1)

fillTee(comps) ==
    LET step1 == normalizeTees(comps, 1, 0)
        step2 == pairOutlets(step1)
        step3 == insertElbows(step2, teeIndexesOf(step2), 1, 0)
        withRef == Indexes(step3, HasTeeRefOutlet)
    IN  insertTeeSides(step3, withRef, Len(withRef))

---------------------------------------------------------------------------
(* fillCapacity                                                            *)

\* the reverse walk: acc is the array built so far (in reverse order),
\* sideFlowByRef a function from the refs recorded so far to their flow
RECURSIVE capacityWalk(_, _, _, _, _)
capacityWalk(reversed, i, current, sideFlowByRef, acc) ==
    IF i > Len(reversed) THEN acc
    ELSE LET comp == reversed[i]
         IN  IF comp.type = "outlet"
             THEN LET own == IF IsNumber(comp.capacity) THEN comp.capacity ELSE 0
                  IN  capacityWalk(reversed, i + 1, current + own, sideFlowByRef,
                                   Append(acc, [comp EXCEPT !.capacity = own]))
             ELSE IF comp.type = "tee_side" /\ IsNumber(comp.tee_ref)
             THEN capacityWalk(reversed, i + 1, 0,
                     [r \in DOMAIN sideFlowByRef \cup {comp.tee_ref} |->
                         IF r = comp.tee_ref THEN current ELSE sideFlowByRef[r]],
                     Append(acc, [comp EXCEPT !.capacity = current]))
             ELSE IF comp.type = "tee_main" /\ IsNumber(comp.tee_ref)
             THEN LET side == IF comp.tee_ref \in DOMAIN sideFlowByRef
                              THEN sideFlowByRef[comp.tee_ref] ELSE 0
                  IN  capacityWalk(reversed, i + 1, current + side, sideFlowByRef,
                                   Append(acc, [comp EXCEPT !.capacity = current]))
             ELSE capacityWalk(reversed, i + 1, current, sideFlowByRef,
                               Append(acc, [comp EXCEPT !.capacity = current]))

\* a fill that forgets what the side branches carry when it passes a tee_main
fillCapacityMainOnly(comps) ==
    Reverse(capacityWalk(Reverse([i \in 1..Len(comps) |->
                IF comps[i].type = "tee_side" THEN [comps[i] EXCEPT !.tee_ref = Null]
                                              ELSE comps[i]]),
                         1, 0, [r \in {} |-> 0], <<>>))

fillCapacity(comps) ==
    Reverse(capacityWalk(Reverse(comps), 1, 0, [r \in {} |-> 0], <<>>))

---------------------------------------------------------------------------
(* fillDiameter                                                            *)

\* a walk that stamps a component before looking at its own diameter
RECURSIVE diameterWalkLagging(_, _, _, _)
diameterWalkLagging(comps, i, current, acc) ==
    IF i > Len(comps) THEN acc
    ELSE diameterWalkLagging(comps, i + 1,
                             IF comps[i].type = "pipe" /\ comps[i].diameter /= Null
                             THEN comps[i].diameter ELSE current,
                             Append(acc, [comps[i] EXCEPT !.diameter = current]))

RECURSIVE diameterWalk(_, _, _, _)
diameterWalk(comps, i, current, acc) ==
    IF i > Len(comps) THEN acc
    ELSE LET cur == IF comps[i].type = "pipe" /\ comps[i].diameter /= Null
                    THEN comps[i].diameter ELSE current
         IN  diameterWalk(comps, i + 1, cur,
                          Append(acc, [comps[i] EXCEPT !.diameter = cur]))

fillDiameter(comps) ==
    LET start == IF Len(comps) >= 2 /\ comps[2].diameter /= Null
                 THEN comps[2].diameter ELSE 0
    IN  diameterWalk(comps, 1, start, <<>>)

---------------------------------------------------------------------------
(* splitByOutlet                                                           *)

IsDischarge(c) == c.type = "discharge"
IsTee(c) == c.type = "tee_main" \/ c.type = "tee_side"
NotTee(c) == ~IsTee(c)

\* keys of teeMainByRef in Map iteration order: the refs of the tee_main
\* nodes in order of first occurrence
RECURSIVE refOrder(_, _, _)
refOrder(comps, i, acc) ==
    IF i > Len(comps) THEN acc
    ELSE IF /\ comps[i].type = "tee_main"
            /\ IsNumber(comps[i].tee_ref)
            /\ \A k \in 1..Len(acc) : acc[k] /= comps[i].tee_ref
         THEN refOrder(comps, i + 1, Append(acc, comps[i].tee_ref))
         ELSE refOrder(comps, i + 1, acc)

\* Map.get after the forEach: the LAST position holding (type, ref); 0 when
\* the map has no such key
lastIndexOf(comps, type, ref) ==
    IF \E i \in 1..Len(comps) : comps[i].type = type /\ comps[i].tee_ref = ref
    THEN CHOOSE i \in 1..Len(comps) :
            /\ comps[i].type = type /\ comps[i].tee_ref = ref
            /\ \A j \in (i + 1)..Len(comps) :
                   ~(comps[j].type = type /\ comps[j].tee_ref = ref)
    ELSE 0

\* MAIN BRANCH of ref: <<path>> or <<>> when no outlet is paired
mainBranch(comps, dischargeIndex, ref) ==
    LET mainIdx == lastIndexOf(comps, "tee_main", ref)
        after == {i \in mainIdx..Len(comps) :
                     comps[i].type = "outlet" /\ comps[i].tee_ref = ref}
    IN  IF after = {} THEN <<>>
        ELSE LET firstOutletIdx == CHOOSE i \in after : \A j \in after : i <= j
             IN  <<SubSeq(comps, dischargeIndex, firstOutletIdx)>>

\* where the forward walk from the tee_side stops (inclusive)
sideEnd(comps, sideIdx) ==
    LET stops == {i \in (sideIdx + 1)..Len(comps) :
                     comps[i].type \in {"tee_main", "discharge", "outlet"}}
    IN  IF stops = {} THEN Len(comps)
        ELSE LET j == CHOOSE i \in stops : \A k \in stops : i <= k
             IN  IF comps[j].type = "outlet" THEN j ELSE j - 1

\* SIDE BRANCH of ref: <<path>> or <<>> when the ref has no tee_side
sideBranch(comps, dischargeIndex, ref) ==
    LET mainIdx == lastIndexOf(comps, "tee_main", ref)
        sideIdx == lastIndexOf(comps, "tee_side", ref)
    IN  IF sideIdx = 0 THEN <<>>
        ELSE LET upstream == SelectSeq(
                     SubSeq(comps, dischargeIndex, Min(mainIdx, sideIdx) - 1),
                     NotTee)
                 sidePath == upstream \o
                             SubSeq(comps, sideIdx, sideEnd(comps, sideIdx))
             IN  IF Len(sidePath) > 0 THEN <<sidePath>> ELSE <<>>

RECURSIVE branchPaths(_, _, _, _)
branchPaths(comps, dischargeIndex, refs, k) ==
    IF k > Len(refs) THEN <<>>
    ELSE mainBranch(comps, dischargeIndex, refs[k])
         \o sideBranch(comps, dischargeIndex, refs[k])
         \o branchPaths(comps, dischargeIndex, refs, k + 1)

\* the local `result` of splitByOutlet when a discharge exists
candidatePaths(comps) ==
    LET dischargeIndex == FindIndex(comps, IsDischarge)
    IN  IF Len(comps) = 0 \/ dischargeIndex = 0 THEN <<>>
        ELSE branchPaths(comps, dischargeIndex, refOrder(comps, 1, <<>>), 1)

\* position of the last outlet of a path, 0 when it has none
lastOutletIdxOf(path) ==
    IF \E i \in 1..Len(path) : path[i].type = "outlet"
    THEN CHOOSE i \in 1..Len(path) :
            /\ path[i].type = "outlet"
            /\ \A j \in (i + 1)..Len(path) : path[j].type /= "outlet"
    ELSE 0

\* a dedupe that cuts every candidate at its last outlet but never consults
\* the set of outlet ids already seen
RECURSIVE dedupeKeepingAll(_, _, _, _)
dedupeKeepingAll(result, k, seenOutletIds, acc) ==
    IF k > Len(result) THEN acc
    ELSE LET path == result[k]
             lastOutletIdx == lastOutletIdxOf(path)
         IN  IF lastOutletIdx = 0
             THEN dedupeKeepingAll(result, k + 1, seenOutletIds, acc)
             ELSE dedupeKeepingAll(result, k + 1, seenOutletIds,
                                   Append(acc, SubSeq(path, 1, lastOutletIdx)))

RECURSIVE dedupeByOutlet(_, _, _, _)
dedupeByOutlet(result, k, seenOutletIds, acc) ==
    IF k > Len(result) THEN acc
    ELSE LET path == result[k]
             lastOutletIdx == lastOutletIdxOf(path)
         IN  IF lastOutletIdx = 0
             THEN dedupeByOutlet(result, k + 1, seenOutletIds, acc)
             ELSE IF path[lastOutletIdx].id \in seenOutletIds
             THEN dedupeByOutlet(result, k + 1, seenOutletIds, acc)
             ELSE dedupeByOutlet(result, k + 1,
                                 seenOutletIds \cup {path[lastOutletIdx].id},
                                 Append(acc, SubSeq(path, 1, lastOutletIdx)))

\* the single path used when no branch path survived
fallbackPath(comps, dischargeIndex) ==
    LET lastOutletIdx == lastOutletIdxOf(comps)
    IN  IF lastOutletIdx /= 0
        THEN SubSeq(comps, dischargeIndex, lastOutletIdx)
        ELSE SubSeq(comps, dischargeIndex, Len(comps))

RECURSIVE pipeLengthSum(_, _, _)
pipeLengthSum(path, from, to) ==
    IF from > to THEN 0
    ELSE (IF path[from].type = "pipe" /\ IsNumber(path[from].length)
          THEN path[from].length ELSE 0)
         + pipeLengthSum(path, from + 1, to)

\* PathMeta.teeRef: the branch reference of the path's last outlet
teeRefOf(path) ==
    IF lastOutletIdxOf(path) /= 0
    THEN path[lastOutletIdxOf(path)].tee_ref ELSE Null

\* the branch tee of the path: its first tee_main with the reference, else
\* its first tee_side with it (0: none)
teeIdxOf(path, teeRef) ==
    IF FindIndex(path, LAMBDA c : c.type = "tee_main" /\ c.tee_ref = teeRef) /= 0
    THEN FindIndex(path, LAMBDA c : c.type = "tee_main" /\ c.tee_ref = teeRef)
    ELSE FindIndex(path, LAMBDA c : c.type = "tee_side" /\ c.tee_ref = teeRef)

\* PathMeta.distFromTee: pipe length from the branch tee to the outlet
distFromTeeOf(path, teeRef, outletIdx, teeIdx) ==
    IF teeRef /= Null /\ outletIdx /= 0 /\ teeIdx /= 0 /\ teeIdx < outletIdx
    THEN pipeLengthSum(path, teeIdx, outletIdx - 1) ELSE 0

\* PathMeta of one path: [teeRef, distFromTee]
metaOf(path) ==
    [teeRef |-> teeRefOf(path),
     distFromTee |-> distFromTeeOf(path, teeRefOf(path), lastOutletIdxOf(path),
                                   teeIdxOf(path, teeRefOf(path)))]

\* Array.prototype.sort((a, b) => b.distFromTee - a.distFromTee), which is
\* stable: order is a sequence of positions of metas
RECURSIVE sortByDistDesc(_, _, _)
sortByDistDesc(order, metas, acc) ==
    IF Len(order) = 0 THEN acc
    ELSE LET e == Head(order)
             keep == {i \in 1..Len(acc) :
                         metas[acc[i]].distFromTee >= metas[e].distFromTee}
             n == Cardinality(keep)
         IN  sortByDistDesc(Tail(order), metas,
                            SubSeq(acc, 1, n) \o <<e>> \o SubSeq(acc, n + 1, Len(acc)))

\* firstMeta: the first of withTee with the greatest distFromTee
firstMetaOf(metas, withTee) ==
    CHOOSE k \in withTee :
        /\ \A j \in withTee : metas[j].distFromTee <= metas[k].distFromTee
        /\ \A j \in withTee : j < k => metas[j].distFromTee < metas[k].distFromTee

\* remainingMetas after take(meta): positions of metas, taken ones removed
remainingMetas(metas, taken) ==
    SelectSeq([k \in 1..Len(metas) |-> k], LAMBDA k : k \notin taken)

\* a reordering that never moves the sibling up
siblingSkipped(metas, sibs) == <<>>

\* siblingMeta, as a sequence of no or one position
siblingMetaOf(metas, sibs) == IF Len(sibs) > 0 THEN <<sibs[1]>> ELSE <<>>

\* orderedMetas once firstMeta and siblingMeta are taken
orderedWith(metas, first, sibling) ==
    <<first>> \o sibling
    \o sortByDistDesc(remainingMetas(metas, {first} \cup {sibling[i] : i \in 1..Len(sibling)}),
                      metas, <<>>)

orderedMetas(metas, first) ==
    orderedWith(metas, first,
        siblingMetaOf(metas,
            sortByDistDesc(SelectSeq(remainingMetas(metas, {first}),
                                     LAMBDA k : metas[k].teeRef = metas[first].teeRef),
                           metas, <<>>)))

pathsOf(deduped, ordered) == [k \in 1..Len(ordered) |-> deduped[ordered[k]]]

reorderWith(deduped, metas, withTee) ==
    IF withTee = {} THEN deduped
    ELSE pathsOf(deduped, orderedMetas(metas, firstMetaOf(metas, withTee)))

withTeeOf(metas) ==
    {k \in 1..Len(metas) : metas[k].teeRef /= Null /\ metas[k].distFromTee > 0}

reorderPaths(deduped) ==
    reorderWith(deduped,
                [k \in 1..Len(deduped) |-> metaOf(deduped[k])],
                withTeeOf([k \in 1..Len(deduped) |-> metaOf(deduped[k])]))

\* a split that, without a discharge, cuts the list after its last outlet
\* instead of returning it whole
splitCutAtLastOutlet(comps) ==
    IF Len(comps) = 0 THEN <<>>
    ELSE LET dischargeIndex == FindIndex(comps, IsDischarge)
         IN  IF dischargeIndex = 0
             THEN <<SubSeq(comps, 1, lastOutletIdxOf(comps))>>
             ELSE LET deduped == dedupeByOutlet(candidatePaths(comps), 1, {}, <<>>)
                  IN  reorderPaths(IF Len(deduped) = 0
                                   THEN <<fallbackPath(comps, dischargeIndex)>>
                                   ELSE deduped)

splitByOutlet(comps) ==
    IF Len(comps) = 0 THEN <<>>
    ELSE LET dischargeIndex == FindIndex(comps, IsDischarge)
         IN  IF dischargeIndex = 0 THEN <<comps>>
             ELSE LET deduped == dedupeByOutlet(candidatePaths(comps), 1, {}, <<>>)
                  IN  reorderPaths(IF Len(deduped) = 0
                                   THEN <<fallbackPath(comps, dischargeIndex)>>
                                   ELSE deduped)

---------------------------------------------------------------------------
(* insertReducersForDiameterChanges                                        *)

RECURSIVE maxIdOf(_, _, _)
maxIdOf(path, i, maxId) ==
    IF i > Len(path) THEN maxId
    ELSE maxIdOf(path, i + 1, Max(maxId, path[i].id))

RECURSIVE maxIdOfPaths(_, _, _)
maxIdOfPaths(paths, k, maxId) ==
    IF k > Len(paths) THEN maxId
    ELSE maxIdOfPaths(paths, k + 1, maxIdOf(paths[k], 1, maxId))

\* a ?? b ?? 0
Coalesce(a, b) == IF a /= Null THEN a ELSE IF b /= Null THEN b ELSE 0

\* a test that asks for a reducer after every node followed by a pipe,
\* whether or not the diameter changes
reducerNeededAnyway(path, i) ==
    /\ i + 1 <= Len(path)
    /\ path[i].component = "node"
    /\ path[i].type /= "reducer"
    /\ path[i + 1].type = "pipe"
    /\ Coalesce(path[i].diameter, path[i + 1].diameter) > 0
    /\ Coalesce(path[i + 1].diameter, path[i].diameter) > 0

\* whether a reducer goes between path[i] and path[i + 1]
reducerNeeded(path, i) ==
    /\ i + 1 <= Len(path)
    /\ path[i].component = "node"
    /\ path[i].type /= "reducer"
    /\ path[i + 1].type = "pipe"
    /\ LET currD == Coalesce(path[i].diameter, path[i + 1].diameter)
           nextD == Coalesce(path[i + 1].diameter, path[i].diameter)
       IN  currD > 0 /\ nextD > 0 /\ currD /= nextD

\* one path; returns [path, maxId]
RECURSIVE reducersInPath(_, _, _, _)
reducersInPath(path, i, maxId, newPath) ==
    IF i > Len(path) THEN [path |-> newPath, maxId |-> maxId]
    ELSE IF reducerNeeded(path, i)
         THEN LET reducer ==
                    [component |-> "node", id |-> maxId + 1, type |-> "reducer",
                     fromId |-> Null, toId |-> Null,
                     x |-> path[i].x, y |-> path[i].y,
                     diameter |-> Coalesce(path[i].diameter, path[i + 1].diameter),
                     length |-> Null,
                     capacity |-> Coalesce(path[i + 1].capacity, path[i].capacity),
                     tee_ref |-> Null, draw_index |-> Null,
                     vertical |-> FALSE, src |-> 0]
              IN  reducersInPath(path, i + 1, maxId + 1,
                                 newPath \o <<path[i], reducer>>)
         ELSE reducersInPath(path, i + 1, maxId, Append(newPath, path[i]))

RECURSIVE reducersInPaths(_, _, _, _)
reducersInPaths(paths, k, maxId, result) ==
    IF k > Len(paths) THEN result
    ELSE LET r == reducersInPath(paths[k], 1, maxId, <<>>)
         IN  reducersInPaths(paths, k + 1, r.maxId, Append(result, r.path))

insertReducersForDiameterChanges(paths) ==
    IF Len(paths) = 0 THEN paths
    ELSE reducersInPaths(paths, 1, maxIdOfPaths(paths, 1, -1), <<>>)

---------------------------------------------------------------------------
(* IEEE 754 arithmetic on small rationals: [num, den] in lowest terms with *)
(* den > 0; den = 0 is +Infinity (num = 1), -Infinity (num = -1) or NaN    *)
(* (num = 0), which is what x / 0 and Infinity * 0 produce.                *)

RECURSIVE Gcd(_, _)
Gcd(a, b) == IF b = 0 THEN a ELSE Gcd(b, a % b)

Abs(n) == IF n < 0 THEN -n ELSE n
Sign(n) == IF n > 0 THEN 1 ELSE IF n < 0 THEN -1 ELSE 0

R(n, d) ==
    IF d = 0 THEN [num |-> Sign(n), den |-> 0]
    ELSE LET g == Gcd(Abs(n), Abs(d))
         IN  [num |-> Sign(d) * (n \div g), den |-> Abs(d) \div g]

RInt(n) == [num |-> n, den |-> 1]
\* the factors are cancelled crosswise first, so that products stay small
RMul(a, b) ==
    IF a.den = 1 /\ a.num = 1 THEN b
    ELSE IF b.den = 1 /\ b.num = 1 THEN a
    ELSE IF a.den = 1 /\ b.den = 1 THEN [num |-> a.num * b.num, den |-> 1]
    ELSE IF a.den = 0 \/ b.den = 0 THEN R(a.num * b.num, a.den * b.den)
    ELSE R((a.num \div Gcd(Abs(a.num), b.den)) * (b.num \div Gcd(Abs(b.num), a.den)),
           (a.den \div Gcd(Abs(b.num), a.den)) * (b.den \div Gcd(Abs(a.num), b.den)))
RDiv(a, b) == R(a.num * b.den, a.den * b.num)
RNeg(a) == [num |-> -a.num, den |-> a.den]
RAdd(a, b) ==
    IF a.den = 0 /\ b.den = 0
    THEN IF a.num = b.num THEN a ELSE [num |-> 0, den |-> 0]
    ELSE IF a.den = 1 /\ a.num = 0 THEN b
    ELSE IF b.den = 1 /\ b.num = 0 THEN a
    ELSE IF a.den = 1 /\ b.den = 1 THEN [num |-> a.num + b.num, den |-> 1]
    ELSE IF a.den = 0 \/ b.den = 0
    THEN R(a.num * b.den + b.num * a.den, a.den * b.den)
    ELSE R(a.num * (b.den \div Gcd(a.den, b.den))
             + b.num * (a.den \div Gcd(a.den, b.den)),
           (a.den \div Gcd(a.den, b.den)) * b.den)
RSub(a, b) == RAdd(a, RNeg(b))
RGt(a, b) == a.num * b.den > b.num * a.den
RIsFinite(a) == a.den /= 0
RIsZero(a) == a.den /= 0 /\ a.num = 0

\* values in the units 1, c and c * G(d, Q)
NoFriction == [k \in {} |-> R(0, 1)]
VZero == [one |-> R(0, 1), c |-> R(0, 1), cF |-> NoFriction]
VOne(r) == [one |-> r, c |-> R(0, 1), cF |-> NoFriction]
VC(r) == [one |-> R(0, 1), c |-> r, cF |-> NoFriction]
VFriction(key, r) ==
    [one |-> R(0, 1), c |-> R(0, 1),
     cF |-> IF RIsZero(r) THEN NoFriction ELSE [k \in {key} |-> r]]
CoefAt(f, k) == IF k \in DOMAIN f THEN f[k] ELSE R(0, 1)
\* a + b; coefficients that cancel leave the map
VAddValues(x, y) ==
    [one |-> RAdd(x.one, y.one),
     c |-> RAdd(x.c, y.c),
     cF |-> IF DOMAIN x.cF = {} THEN y.cF
            ELSE IF DOMAIN y.cF = {} THEN x.cF
            ELSE [k \in {j \in DOMAIN x.cF \cup DOMAIN y.cF :
                            ~RIsZero(RAdd(CoefAt(x.cF, j), CoefAt(y.cF, j)))}
                     |-> RAdd(CoefAt(x.cF, k), CoefAt(y.cF, k))]]
VAdd(a, b) == VAddValues(a, b)
\* x === 0
VIsZero(a) == RIsZero(a.one) /\ RIsZero(a.c) /\ DOMAIN a.cF = {}

---------------------------------------------------------------------------
(* Row helpers of Calculations                                             *)

\* a flag with the axes swapped: same y, different x
computeHorizontalFlag(comp, comps) ==
    IF comp.type /= "pipe" THEN FALSE
    ELSE IF comp.fromId = Null \/ comp.toId = Null THEN FALSE
    ELSE IF \/ FindIndex(comps, LAMBDA c : c.component = "node" /\ c.id = comp.fromId) = 0
            \/ FindIndex(comps, LAMBDA c : c.component = "node" /\ c.id = comp.toId) = 0
    THEN FALSE
    ELSE /\ comps[FindIndex(comps, LAMBDA c : c.component = "node" /\ c.id = comp.fromId)].y
            = comps[FindIndex(comps, LAMBDA c : c.component = "node" /\ c.id = comp.toId)].y
         /\ comps[FindIndex(comps, LAMBDA c : c.component = "node" /\ c.id = comp.fromId)].x
            /= comps[FindIndex(comps, LAMBDA c : c.component = "node" /\ c.id = comp.toId)].x

\* computeVerticalFlag: both end nodes found with coordinates, same x,
\* different y (coordinates are grid integers, TOL = 0.001)
computeVerticalFlag(comp, comps) ==
    IF comp.type /= "pipe" THEN FALSE
    ELSE IF comp.fromId = Null \/ comp.toId = Null THEN FALSE
    ELSE LET IsFrom(c) == c.component = "node" /\ c.id = comp.fromId
             IsTo(c) == c.component = "node" /\ c.id = comp.toId
             fromAt == FindIndex(comps, IsFrom)
             toAt == FindIndex(comps, IsTo)
         IN  IF fromAt = 0 \/ toAt = 0 THEN FALSE
             ELSE IF \/ comps[fromAt].x = Null \/ comps[toAt].x = Null
                     \/ comps[fromAt].y = Null \/ comps[toAt].y = Null
             THEN FALSE
             ELSE /\ comps[fromAt].x = comps[toAt].x
                  /\ comps[fromAt].y /= comps[toAt].y

\* isVertical: pipes carry the flag precomputed by the constructor
isVertical(comp) == IF comp.type /= "pipe" THEN FALSE ELSE comp.vertical

countElbow(comp) ==
    IF comp.type = "elbow90" THEN 2 ELSE IF comp.type = "elbow45" THEN 1 ELSE 0

getT90(comp) ==
    IF comp.type = "tee_main" THEN R(1, 1)
    ELSE IF comp.type = "tee_side" THEN R(1, 2) ELSE R(0, 1)

getQ90(comp) ==
    IF comp.type = "tee_main" THEN R(1, 2)
    ELSE IF comp.type = "tee_side" THEN R(1, 1) ELSE R(0, 1)

\* type?.startsWith("tee")
StartsWithTee(type) == type \in {"tee", "tee_main", "tee_side"}

\* getD90: diameter of the canonical component drawn right after the tee
getD90(comp, canonical) ==
    IF ~StartsWithTee(comp.type) THEN 0
    ELSE IF comp.draw_index = Null THEN 0
    ELSE LET IsNext(c) == c.draw_index /= Null
                          /\ c.draw_index = comp.draw_index + 1
             at == FindIndex(canonical, IsNext)
         IN  IF at = 0 THEN 0
             ELSE IF canonical[at].diameter = Null THEN 0
             ELSE canonical[at].diameter

\* getDi, in micrometres: 0.922 * diameter / 1000 m
getDi(diameter) == 922 * diameter

\* getVelocity = Q * 0.004 / (pi * di * di), as a sign class
getVelocity(Q, di) ==
    IF di = 0 THEN "zero" ELSE IF Q = 0 THEN "zero" ELSE "pos"

OrZero(v) == IF v = Null THEN 0 ELSE v

\* a row index that ignores the component's draw_index
rowIndexByPosition(comp, index) == index

\* index: c.draw_index ?? (i + 1)
rowIndex(comp, index) ==
    IF comp.draw_index /= Null THEN comp.draw_index ELSE index

\* preNormalize, one component at position index of its path
preNormalizeRow(comp, index, canonical) ==
    LET di == getDi(OrZero(comp.diameter))
    IN  [index |-> rowIndex(comp, index),
         item |-> comp.type,
         Q |-> OrZero(comp.capacity),
         d |-> OrZero(comp.diameter),
         L |-> OrZero(comp.length),
         vertical |-> isVertical(comp),
         elbow |-> countElbow(comp),
         reducer |-> comp.type = "reducer",
         t90 |-> getT90(comp),
         d90 |-> getD90(comp, canonical),
         q90 |-> getQ90(comp),
         di |-> di,
         V |-> getVelocity(OrZero(comp.capacity), di),
         h |-> 0, Re |-> "zero", f |-> "zero", a |-> R(0, 1),
         ktee |-> R(0, 1), kred |-> R(0, 1),
         ktotal |-> [minor |-> R(0, 1), major |-> R(0, 1)],
         vp |-> R(0, 1), delta_H |-> VZero, delta_P |-> VZero,
         src |-> comp.src]

preNormalize(paths, canonical) ==
    [p \in 1..Len(paths) |->
        [i \in 1..Len(paths[p]) |-> preNormalizeRow(paths[p][i], i, canonical)]]

---------------------------------------------------------------------------
(* normalize                                                               *)

\* a head that grows along every pipe, vertical or not
RECURSIVE headAlongEveryPipe(_, _)
headAlongEveryPipe(compSet, i) ==
    IF i <= 1 THEN compSet[1].h
    ELSE compSet[i].h + headAlongEveryPipe(compSet, i - 1) + compSet[i - 1].L

\* elevation-head loop: h[i] = h[i-1] + L[i-1] * vertical[i-1]
RECURSIVE headAt(_, _)
headAt(compSet, i) ==
    IF i <= 1 THEN compSet[1].h
    ELSE compSet[i].h + headAt(compSet, i - 1)
         + (IF compSet[i - 1].vertical THEN compSet[i - 1].L ELSE 0)

\* a loop that reads compSet[i + 1] at every position, the last included
readsNextUnguarded(compSet, i) == TRUE

\* the area-ratio loop reads updated[i + 1] for every row but the last
readsNext(compSet, i) == i /= Len(compSet)

\* area-ratio loop (rows 2..n; row 1 keeps its preNormalize value), before
\* the discharge override
RECURSIVE areaLoopAt(_, _)
areaLoopAt(compSet, i) ==
    IF i <= 1 THEN compSet[1].a
    ELSE IF readsNext(compSet, i)
         THEN LET nextDi == compSet[i + 1].di
                  currDi == compSet[i].di
              IN  IF nextDi = 0 THEN R(0, 1)
                  ELSE LET q == R(currDi, nextDi) IN RMul(q, q)
         ELSE areaLoopAt(compSet, i - 1)

areaRatio(compSet, i) ==
    IF compSet[i].item = "discharge" THEN R(1, 1) ELSE areaLoopAt(compSet, i)

\* Re = di * V / 1e-6
reynolds(row) == IF row.di = 0 THEN "zero" ELSE row.V

\* Darcy friction factor: 1 / (0.86 ln(..))^2 for a pipe with d > 0, Re > 0
friction(row) ==
    IF row.item = "pipe"
    THEN IF row.d > 0 /\ reynolds(row) = "pos" THEN "pos" ELSE "zero"
    ELSE row.f

reducerLoss(a) ==
    IF RGt(a, R(1, 1)) THEN RMul(RSub(a, R(1, 1)), RSub(a, R(1, 1)))
    ELSE IF a = R(1, 1) THEN R(0, 1)
    ELSE RAdd(RMul(R(-513, 1000), a), R(51, 100))

teeLoss(row) ==
    IF ~StartsWithTee(row.item) THEN row.ktee
    ELSE IF row.d = 0 THEN row.ktee
    ELSE LET q == R(row.d90, row.d)
             a == RMul(q, q)
         IN  IF row.t90 = R(1, 1)
             THEN LET q90 == row.q90
                      multiplier == IF RGt(a, R(35, 100)) THEN R(55, 100) ELSE R(1, 1)
                      qa == RDiv(q90, a)
                      one_q == RSub(R(1, 1), q90)
                  IN  RMul(multiplier,
                           RSub(RSub(RAdd(R(1, 1), RMul(qa, qa)),
                                     RMul(R(2, 1), RMul(one_q, one_q))),
                                RMul(R(1414, 1000), RMul(q90, q90))))
             ELSE IF row.t90 = R(1, 2)
             THEN IF row.d90 /= 0 THEN RSub(R(75, 100), RDiv(R(35, 100), a))
                  ELSE row.ktee
             ELSE row.ktee

\* vp = V * V / (2 * 9.81), in the unit c: V is Q * 0.004 / (pi * di * di)
velocityHead(row) ==
    IF row.V = "zero" THEN R(0, 1)
    ELSE RMul(R(row.Q * 10000, row.d * row.d), R(row.Q * 10000, row.d * row.d))

\* the friction atom of a row: f depends on d and on Re, that is on d and Q
frictionKey(row) == <<row.d, row.Q>>

\* major = di === 0 ? 0 : f * (L / di), as the coefficient of G(d, Q)
majorLoss(row) ==
    IF row.di = 0 THEN R(0, 1)
    ELSE IF row.f = "zero" THEN R(0, 1) ELSE R(row.L, 1)

\* minor = elbow * 0.2 + kred + ktee
minorLoss(row) ==
    RAdd(RAdd(IF row.elbow = 0 THEN [num |-> 0, den |-> 1] ELSE R(2 * row.elbow, 10),
              row.kred), row.ktee)

\* ktotal: 1 for the discharge, major + minor for the others
totalLoss(row) ==
    IF row.item = "discharge" THEN [minor |-> R(1, 1), major |-> R(0, 1)]
    ELSE [minor |-> minorLoss(row), major |-> majorLoss(row)]

\* ktotal * vp: the minor part in the unit c, the major part on the atom
lossTimesHead(ktotal, vp, key) ==
    [one |-> [num |-> 0, den |-> 1],
     c |-> RMul(ktotal.minor, vp),
     cF |-> IF RIsZero(RMul(ktotal.major, vp)) THEN NoFriction
            ELSE [k \in {key} |-> RMul(ktotal.major, vp)]]

\* delta_H = ktotal * vp
headLoss(row) == lossTimesHead(row.ktotal, row.vp, frictionKey(row))

\* the copied rows after the loops for h, vp, f, a, kred and ktee
withLosses(compSet) ==
    [i \in 1..Len(compSet) |->
        [compSet[i] EXCEPT
            !.h = headAt(compSet, i),
            !.a = areaRatio(compSet, i),
            !.Re = reynolds(compSet[i]),
            !.f = friction(compSet[i]),
            !.kred = reducerLoss(areaRatio(compSet, i)),
            !.ktee = teeLoss(compSet[i]),
            !.vp = velocityHead(compSet[i])]] \o <<>>

\* the loop for ktotal and delta_H
withTotals(updated) ==
    [i \in 1..Len(updated) |->
        [updated[i] EXCEPT
            !.ktotal = totalLoss(updated[i]),
            !.delta_H = headLoss([updated[i] EXCEPT !.ktotal = totalLoss(updated[i])])]]
    \o <<>>

\* the last row takes the delta_H of the row before it when its own is 0
finalHeadLoss(updated) ==
    IF Len(updated) > 1 /\ VIsZero(updated[Len(updated)].delta_H)
    THEN [updated EXCEPT ![Len(updated)].delta_H = updated[Len(updated) - 1].delta_H]
    ELSE updated

\* a pressure step that forgets the change of velocity head
pressureWithoutVelocity(updated, i) ==
    VAdd(VAdd(updated[i - 1].delta_P, updated[i - 1].delta_H),
         VOne(R(updated[i - 1].h - updated[i].h, 1)))

\* one step of the pressure loop: delta_P[i] = delta_P[i-1] + delta_H[i-1]
\*                                            + (h[i-1] - h[i]) + (vp[i-1] - vp[i])
pressureAt(updated, i) ==
    VAdd(VAdd(VAdd(updated[i - 1].delta_P, updated[i - 1].delta_H),
              VOne(R(updated[i - 1].h - updated[i].h, 1))),
         VC(RSub(updated[i - 1].vp, updated[i].vp)))

\* the pressure loop, rows 1..n-1 of the array (row 0 keeps its delta_P)
RECURSIVE pressureLoop(_, _)
pressureLoop(updated, i) ==
    IF i > Len(updated) THEN updated
    ELSE pressureLoop([updated EXCEPT ![i].delta_P = pressureAt(updated, i)], i + 1)

normalizeSet(compSet) ==
    pressureLoop(finalHeadLoss(withTotals(withLosses(compSet))), 2)

normalize(compSets) == [p \in 1..Len(compSets) |-> normalizeSet(compSets[p])]

\* unguarded element reads of normalize: updated[i + 1].di raises a
\* TypeError when the row does not exist (every other element read of the
\* class is bounded by its own loop)
normalizeThrows(compSets) ==
    \E p \in 1..Len(compSets) :
        \E i \in 2..Len(compSets[p]) :
            readsNext(compSets[p], i) /\ i + 1 > Len(compSets[p])

---------------------------------------------------------------------------
(* constructor, organize and computeRowsFromComponents                     *)

\* lines 84-97: the canonical copy with the per-pipe vertical flag
canonicalOf(input) ==
    [i \in 1..Len(input) |->
        IF input[i].component = "edge" /\ input[i].type = "pipe"
        THEN [input[i] EXCEPT !.vertical = computeVerticalFlag(input[i], input)]
        ELSE input[i]]

organize(comps) ==
    insertReducersForDiameterChanges(
        splitByOutlet(fillDiameter(fillCapacity(fillTee(comps)))))

\* computeRowsFromComponents, withDrawIndex: idx + 1 when none is carried
withDrawIndex(comps) ==
    [i \in 1..Len(comps) |->
        IF comps[i].draw_index /= Null THEN comps[i]
        ELSE [comps[i] EXCEPT !.draw_index = i]]

---------------------------------------------------------------------------
(* The state machine: the drawing surface appends a component and the      *)
(* rows are recomputed by computeRowsFromComponents (equationRowGroups).   *)

\* no cache entry yet
NoMemo == [set |-> FALSE, components |-> <<>>, rows |-> <<>>, later |-> "none"]

\* bookkeeping of the cache entry: which lists the solver was invoked on
\* after the entry was taken ("none", only the "same" list, or some "other")
noteCall(m, comps) ==
    IF ~m.set THEN m
    ELSE [m EXCEPT !.later = IF comps /= m.components THEN "other"
                             ELSE IF @ = "none" THEN "same" ELSE @]

\* no request handled yet
NoRequest == [method |-> "none", organization_id |-> "", name |-> "", user_id |-> ""]
NoResponse == [status |-> 0, error |-> "", data |-> <<>>]

\* CanvasSnapshot: nodes, edges and componentOrder; taken = FALSE is null
Snapshot(n, e, order) ==
    [taken |-> TRUE, nodes |-> n, edges |-> e, componentOrder |-> order]
NoSnapshot ==
    [taken |-> FALSE, nodes |-> <<>>, edges |-> <<>>, componentOrder |-> <<>>]

\* nothing selected
NoSelection == [component |-> "none", id |-> Null]

\* the canvas as the component mounts: empty, not drawing
CanvasInit ==
    /\ nodes = <<>>
    /\ edges = <<>>
    /\ componentOrder = <<>>
    /\ currentNodeId = Null
    /\ drawingEnabled = FALSE
    /\ nextId = 1
    /\ pendingReducerIds = {}
    /\ selected = NoSelection
    /\ undoSnapshot = NoSnapshot
    /\ redoSnapshot = NoSnapshot
    /\ deleteSees = Snapshot(<<>>, <<>>, <<>>)
    /\ log = [lastKey |-> "none", changedFrom |-> NoSnapshot,
              undoneFrom |-> NoSnapshot]

\* the callback page before its effect runs, opened with link l
AuthInitFor(l) ==
    /\ hasRedirected = FALSE
    /\ handleAuthAt = "start"
    /\ redirecting = "idle"
    /\ subscription = "none"
    /\ timeoutId = "none"
    /\ pushed = <<>>
    /\ cleanedUp = FALSE
    /\ link = l
    /\ authEvents = 0
    /\ session = "none"

\* the callback page before its effect runs, for a link without parameters
AuthInit == AuthInitFor([code |-> FALSE, organization_code |-> FALSE])

\* no project loaded, nothing computed, no request made
EmptyProject ==
    /\ components = <<>>
    /\ canonicalComponents = <<>>
    /\ teeFilled = <<>>
    /\ capacityFilled = <<>>
    /\ filledComponents = <<>>
    /\ candidates = <<>>
    /\ byOutlet = <<>>
    /\ organized = <<>>
    /\ rows = <<>>
    /\ threw = FALSE
    /\ memo = NoMemo
    /\ supabaseAdmin = FALSE
    /\ projects = <<>>
    /\ dbCalls = 0
    /\ request = NoRequest
    /\ response = NoResponse

Init ==
    /\ EmptyProject
    /\ CanvasInit
    /\ AuthInit

\* a solver that works on the caller's own array and objects
callerArrayShared(comps, worked) == worked

\* the caller's array when the call returns.  computeRowsFromComponents, the
\* constructor and fillTee each spread every component into a new object of
\* a new array, and every write (draw_index, vertical, type, tee_ref, the
\* splices) goes to those: `worked`, the list fillTee wrote to, shares
\* nothing with comps.
callerArrayAfter(comps, worked) == comps

\* an invocation whose instance starts from the rows of the one before
ComputeRowsRetaining(comps) ==
    \E canonical \in {canonicalOf(withDrawIndex(comps))} :
    \E tee \in {fillTee(canonical)} :
    \E cap \in {fillCapacity(tee)} :
    \E filled \in {fillDiameter(cap)} :
    \E split \in {splitByOutlet(filled)} :
    \E b \in {insertReducersForDiameterChanges(split)} :
    \E c \in {preNormalize(b, canonical)} :
        /\ components' = callerArrayAfter(comps, tee)
        /\ canonicalComponents' = canonical
        /\ teeFilled' = tee
        /\ capacityFilled' = cap
        /\ filledComponents' = filled
        /\ candidates' = candidatePaths(filled)
        /\ byOutlet' = split
        /\ organized' = b
        /\ threw' = normalizeThrows(c)
        /\ rows' = IF normalizeThrows(c) THEN <<>> ELSE rows \o normalize(c)
        /\ memo' = noteCall(memo, comps)
        /\ UNCHANGED apiVars
        /\ UNCHANGED <<canvasVars, authVars>>

\* computeRowsFromComponents(comps) with comps non-empty
ComputeRows(comps) ==
    \E canonical \in {canonicalOf(withDrawIndex(comps))} :
    \E tee \in {fillTee(canonical)} :
    \E cap \in {fillCapacity(tee)} :
    \E filled \in {fillDiameter(cap)} :
    \E split \in {splitByOutlet(filled)} :
    \E b \in {insertReducersForDiameterChanges(split)} :
    \E c \in {preNormalize(b, canonical)} :
        /\ components' = callerArrayAfter(comps, tee)
        /\ canonicalComponents' = canonical
        /\ teeFilled' = tee
        /\ capacityFilled' = cap
        /\ filledComponents' = filled
        /\ candidates' = candidatePaths(filled)
        /\ byOutlet' = split
        /\ organized' = b
        /\ threw' = normalizeThrows(c)
        /\ rows' = IF normalizeThrows(c) THEN <<>> ELSE normalize(c)
        /\ memo' = noteCall(memo, comps)
        /\ UNCHANGED apiVars
        /\ UNCHANGED <<canvasVars, authVars>>

DrawNode(c) ==
    /\ Len(components) < MaxLen
    /\ ComputeRows(Append(components, Place(c, Len(components) + 1)))

DrawPipe(c) ==
    /\ Len(components) < MaxLen
    /\ ComputeRows(Append(components, Place(c, Len(components) + 1)))

Next ==
    \/ \E c \in NodeChoices : DrawNode(c)
    \/ \E c \in PipeChoices : DrawPipe(c)

Spec == Init /\ [][Next]_vars

---------------------------------------------------------------------------
(* Editing a drawing: every edit recomputes the rows, the page may         *)
(* recompute them for the same drawing, and a caller may keep the rows it  *)
(* got for a list (memoization by input identity).                        *)

\* longest component array in an editing session
MaxEdit == 4

\* handleClickDraw: one more component, rows recomputed
DrawMore ==
    /\ Len(components) < MaxEdit
    /\ \E c \in NodeChoices \cup PipeChoices :
           ComputeRows(Append(components, Place(c, Len(components) + 1)))

\* handleDeleteSelected on the component drawn last, rows recomputed (the
\* session goes at most one component below a cached list)
DeleteLast ==
    /\ Len(components) > 0
    /\ memo.set => Len(components) >= Len(memo.components)
    /\ ComputeRows(SubSeq(components, 1, Len(components) - 1))

\* equationRowGroups evaluated again for the same canvasJson
Recompute ==
    /\ Len(components) > 0
    /\ ComputeRows(components)

\* the caller stores the list it handed in and the rows it got
Memoize ==
    /\ ~memo.set
    /\ memo' = [set |-> TRUE, components |-> components, rows |-> rows,
                later |-> "none"]
    /\ UNCHANGED solverVars
    /\ UNCHANGED <<canvasVars, authVars>>
    /\ UNCHANGED apiVars

NextRerun == DrawMore \/ DeleteLast \/ Recompute \/ Memoize

SpecRerun == Init /\ [][NextRerun]_vars

---------------------------------------------------------------------------
(* The solver applied to a prepared list: a tee whose main branch and side *)
(* branch are already typed and referenced by the caller.                 *)

\* largest outlet demand and largest branch reference of a prepared list
MaxCapacity == 3
MaxRef == 2

\* discharge, pipe, tee_main(r), pipe, outlet(r, m), tee_side(r), elbow45,
\* pipe, outlet(s)
SimpleTee(r, m, s, p1, p2, p3) ==
    LET drawn == << Comp("node", "discharge", 0, 0, Null, Null, Null, Null),
                    p1,
                    Comp("node", "tee_main",  0, 1, Null, Null, Null, r),
                    p2,
                    Comp("node", "outlet",    0, 2, Null, Null, m,    r),
                    Comp("node", "tee_side",  0, 1, Null, Null, Null, r),
                    Comp("node", "elbow45",   0, 1, Null, Null, Null, Null),
                    p3,
                    Comp("node", "outlet",    1, 1, Null, Null, s,    Null) >>
    IN  [k \in 1..Len(drawn) |-> Place(drawn[k], k)]

SimpleTeeInputs ==
    { SimpleTee(r, m, s, p1, p2, p3) :
        r \in 0..MaxRef, m \in 1..MaxCapacity, s \in 1..MaxCapacity,
        p1 \in PipeChoices, p2 \in PipeChoices, p3 \in PipeChoices }

\* the branch references an outlet of a prepared list may declare
OutletRefs == {Null, 0, 1}

\* discharge, pipe, tee_main(0), pipe, outlet(a), tee_main(1), pipe,
\* outlet(b), tee_side(c), pipe, outlet(e)
TwoTees(a, b, c, e, p1, p2, p3, p4) ==
    LET drawn == << Comp("node", "discharge", 0, 0, Null, Null, Null, Null),
                    p1,
                    Comp("node", "tee_main",  0, 1, Null, Null, Null, 0),
                    p2,
                    Comp("node", "outlet",    0, 2, Null, Null, 1,    a),
                    Comp("node", "tee_main",  0, 1, Null, Null, Null, 1),
                    p3,
                    Comp("node", "outlet",    1, 1, Null, Null, 2,    b),
                    Comp("node", "tee_side",  0, 1, Null, Null, Null, c),
                    p4,
                    Comp("node", "outlet",    1, 2, Null, Null, 3,    e) >>
    IN  [k \in 1..Len(drawn) |-> Place(drawn[k], k)]

TwoTeesInputs ==
    { TwoTees(a, b, c, e, p1, p2, p3, p4) :
        a \in OutletRefs, b \in OutletRefs, c \in {0, 1}, e \in OutletRefs,
        p1 \in {p \in PipeChoices : p.diameter = 50},
        p2 \in PipeChoices, p3 \in PipeChoices, p4 \in PipeChoices }

\* discharge, pipe, tee(t1), pipe, outlet, tee(t2), pipe, outlet: generic
\* tees, some of which already carry a reference
GenericTees(t1, t2, p1, p2, p3) ==
    LET drawn == << Comp("node", "discharge", 0, 0, Null, Null, Null, Null),
                    p1,
                    Comp("node", "tee",       0, 1, Null, Null, Null, t1),
                    p2,
                    Comp("node", "outlet",    0, 2, Null, Null, 1,    Null),
                    Comp("node", "tee",       0, 1, Null, Null, Null, t2),
                    p3,
                    Comp("node", "outlet",    1, 1, Null, Null, 2,    Null) >>
    IN  [k \in 1..Len(drawn) |-> Place(drawn[k], k)]

GenericTeesInputs ==
    { GenericTees(t1, t2, p1, p2, p3) :
        t1 \in OutletRefs, t2 \in OutletRefs,
        p1 \in {p \in PipeChoices : p.diameter = 50},
        p2 \in PipeChoices, p3 \in PipeChoices }

\* a component of a canvas drawing at position pos of componentOrder: the
\* canvas numbers nodes and edges in the order they are created, and an
\* edge names the nodes it joins
Drawn(c, pos, id, fromId, toId) ==
    [c EXCEPT !.id = id, !.src = pos, !.fromId = fromId, !.toId = toId]

\* The drawing D(1) -e2- N(3) -e4- N(5) -e8- N(9), with a branch e6 to N(7)
\* drawn from node 3 and a branch e10 to N(11) drawn from node 5 after the
\* rest: handleClickDraw puts a segment resumed from a node that is not last
\* right behind that node.  x5 is the x of node 11, above or beside node 5.
ResumedDrawing(x5, p1, p2, p3) ==
    << Drawn(Comp("node", "discharge", 0, 0, Null, Null, Null, Null), 1, 1, Null, Null),
       Drawn(p1, 2, 2, 1, 3),
       Drawn(Comp("node", "tee",    0, 1, Null, Null, Null, Null), 3, 3, Null, Null),
       Drawn(p2, 4, 6, 3, 7),
       Drawn(Comp("node", "outlet", 1, 1, Null, Null, 1, Null), 5, 7, Null, Null),
       Drawn(p1, 6, 4, 3, 5),
       Drawn(Comp("node", "tee",    0, 2, Null, Null, Null, Null), 7, 5, Null, Null),
       Drawn(p3, 8, 10, 5, 11),
       Drawn(Comp("node", "outlet", x5, 3, Null, Null, 2, Null), 9, 11, Null, Null),
       Drawn(p2, 10, 8, 5, 9),
       Drawn(Comp("node", "outlet", 1, 2, Null, Null, 3, Null), 11, 9, Null, Null) >>

ResumedDrawingInputs ==
    { ResumedDrawing(x5, p1, p2, p3) :
        x5 \in {0, 1}, p1 \in PipeChoices, p2 \in PipeChoices, p3 \in PipeChoices }

InitPrepared ==
    /\ components \in SimpleTeeInputs \cup TwoTeesInputs \cup GenericTeesInputs
                       \cup ResumedDrawingInputs
    /\ canonicalComponents = <<>>
    /\ teeFilled = <<>>
    /\ capacityFilled = <<>>
    /\ filledComponents = <<>>
    /\ candidates = <<>>
    /\ byOutlet = <<>>
    /\ organized = <<>>
    /\ rows = <<>>
    /\ threw = FALSE
    /\ memo = NoMemo
    /\ supabaseAdmin = FALSE
    /\ projects = <<>>
    /\ dbCalls = 0
    /\ request = NoRequest
    /\ response = NoResponse
    /\ CanvasInit
    /\ AuthInit

\* computeRowsFromComponents on the prepared list
SolvePrepared ==
    /\ organized = <<>>
    /\ ComputeRows(components)

NextPrepared == SolvePrepared

SpecPrepared == InitPrepared /\ [][NextPrepared]_vars

---------------------------------------------------------------------------
(* The route /api/projects (app/api/projects/route.ts).  The admin client  *)
(* is created, or not, when the module is loaded and never changes.        *)

\* most queries the database is sent in one behaviour
MaxDbCalls == 3

\* the value of a key the query string or the JSON body does not have
Absent == "undefined"
OrgIds == {"org_a", "org_b"}
\* what a request may give for organization_id
OrgValues == {Absent, ""} \cup OrgIds

\* !organization_id, and the `if (organizationId)` of GET
Falsy(v) == v \in {Absent, ""}

NotInitialized == "Supabase admin client not initialized"
OrgRequired == "organization_id is required"
DbFailed == "database error"

ErrorResponse(status, message) == [status |-> status, error |-> message, data |-> <<>>]
DataResponse(data) == [status |-> 200, error |-> "", data |-> data]

\* a route that takes the client for granted
clientAssumed == FALSE

\* !supabaseAdmin
clientMissing == ~supabaseAdmin

\* select("*").order("created_at", {ascending: false}), filtered by
\* organization_id when the query string gives one
selectProjects(org) ==
    Reverse(IF Falsy(org) THEN projects
            ELSE SelectSeq(projects, LAMBDA row : row.organization_id = org))

InitApi ==
    /\ components = <<>>
    /\ canonicalComponents = <<>>
    /\ teeFilled = <<>>
    /\ capacityFilled = <<>>
    /\ filledComponents = <<>>
    /\ candidates = <<>>
    /\ byOutlet = <<>>
    /\ organized = <<>>
    /\ rows = <<>>
    /\ threw = FALSE
    /\ memo = NoMemo
    /\ supabaseAdmin \in BOOLEAN
    /\ projects = <<>>
    /\ dbCalls = 0
    /\ request = NoRequest
    /\ response = NoResponse
    /\ CanvasInit
    /\ AuthInit

\* GET /api/projects?organization_id=org; failed: the query returns an error
GET(org, failed) ==
    /\ dbCalls < MaxDbCalls
    /\ request' = [method |-> "GET", organization_id |-> org,
                   name |-> Absent, user_id |-> Absent]
    /\ IF clientMissing
       THEN /\ response' = ErrorResponse(500, NotInitialized)
            /\ UNCHANGED <<dbCalls, projects>>
       ELSE /\ dbCalls' = dbCalls + 1
            /\ response' = IF failed THEN ErrorResponse(500, DbFailed)
                           ELSE DataResponse(selectProjects(org))
            /\ UNCHANGED projects
    /\ UNCHANGED <<supabaseAdmin, memo>>
    /\ UNCHANGED solverVars
    /\ UNCHANGED <<canvasVars, authVars>>

\* POST /api/projects with body {name, organization_id, user_id}; failed:
\* the insert returns an error
POST(name, org, user, failed) ==
    /\ dbCalls < MaxDbCalls
    /\ request' = [method |-> "POST", organization_id |-> org,
                   name |-> name, user_id |-> user]
    /\ IF Falsy(org)
       THEN /\ response' = ErrorResponse(400, OrgRequired)
            /\ UNCHANGED <<dbCalls, projects>>
       ELSE IF clientMissing
       THEN /\ response' = ErrorResponse(500, NotInitialized)
            /\ UNCHANGED <<dbCalls, projects>>
       ELSE /\ dbCalls' = dbCalls + 1
            /\ IF failed
               THEN /\ response' = ErrorResponse(500, DbFailed)
                    /\ UNCHANGED projects
               ELSE /\ projects' = Append(projects,
                            [name |-> name, organization_id |-> org, created_by |-> user])
                    /\ response' = DataResponse(
                            <<[name |-> name, organization_id |-> org, created_by |-> user]>>)
    /\ UNCHANGED <<supabaseAdmin, memo>>
    /\ UNCHANGED solverVars
    /\ UNCHANGED <<canvasVars, authVars>>

NextApi ==
    \/ \E org \in OrgValues, failed \in BOOLEAN : GET(org, failed)
    \/ \E name \in {Absent, "Test Project"}, org \in OrgValues,
          user \in {Absent, "user_123"}, failed \in BOOLEAN :
            POST(name, org, user, failed)

SpecApi == InitApi /\ [][NextApi]_vars

---------------------------------------------------------------------------
(* The drawing surface (components/login-form, IsometricCanvas): nodes,    *)
(* edges and componentOrder under clicks in drawing mode, selection,       *)
(* delete, Ctrl+Z and Ctrl+Y.  A click lands on one of the grid dots or on *)
(* a pipe; a node is [id, at, type] with `at` its dot, an edge is          *)
(* [id, fromId, toId], an entry of componentOrder is [component, id].      *)

\* grid dots a click can land on, and the largest id nextIdRef hands out
MaxDots == 3
MaxCanvasId == 7

Dots == 1..MaxDots

\* getDefaultNodeType
getDefaultNodeType(existingNodes) ==
    IF Len(existingNodes) = 0 THEN "discharge" ELSE "elbow90"

\* findNearbyNode: position in the array of the node on dot p, 0 when none
findNearbyNode(ns, p) == FindIndex(ns, LAMBDA n : n.at = p)

\* nodes.find((n) => n.id === id): position in the array, 0 when none
findNode(ns, id) == FindIndex(ns, LAMBDA n : n.id = id)

NodeEntry(id) == [component |-> "node", id |-> id]
EdgeEntry(id) == [component |-> "edge", id |-> id]

\* canvasJson.components / canonicalOrder: componentOrder without repeated
\* entries and without entries whose node or edge no longer exists
RECURSIVE canonicalFrom(_, _, _, _, _)
canonicalFrom(ns, es, order, i, list) ==
    IF i > Len(order) THEN list
    ELSE IF \E j \in 1..(i - 1) : order[j] = order[i]
    THEN canonicalFrom(ns, es, order, i + 1, list)
    ELSE IF order[i].component = "node"
    THEN canonicalFrom(ns, es, order, i + 1,
             IF findNode(ns, order[i].id) /= 0 THEN Append(list, order[i]) ELSE list)
    ELSE canonicalFrom(ns, es, order, i + 1,
             IF \E k \in 1..Len(es) : es[k].id = order[i].id
             THEN Append(list, order[i]) ELSE list)

canonicalOrder(ns, es, order) == canonicalFrom(ns, es, order, 1, <<>>)

\* ghost: a draw or delete operation went from the current canvas to n, e,
\* order.  log.lastKey is the last of draw/delete ("edit"), Ctrl+Z with a
\* snapshot ("undo") or without ("undo-none") and Ctrl+Y ("redo");
\* log.changedFrom is the canvas before the most recent draw or delete that
\* changed it, log.undoneFrom the canvas before the last Ctrl+Z
Edited(n, e, order) ==
    [lastKey |-> "edit",
     changedFrom |-> IF <<n, e, order>> /= <<nodes, edges, componentOrder>>
                     THEN Snapshot(nodes, edges, componentOrder)
                     ELSE log.changedFrom,
     undoneFrom |-> NoSnapshot]

\* handleDeleteSelected is rebuilt, with the saveSnapshotForUndo of that
\* render, only when the selection or the edges change (its dependency list
\* names neither nodes nor componentOrder nor saveSnapshotForUndo)
closureAfter(n, e, order, sel) ==
    IF e /= edges \/ sel /= selected THEN Snapshot(n, e, order) ELSE deleteSees

\* a branch of handleClickDraw that called saveSnapshotForUndo and leaves
\* the canvas at n, e, order.  The click lands outside the popover of a
\* selected component, which closes it (onOpenChange, closePopover) and
\* clears the selection.
DrawCommit(n, e, order, cur, pending, next) ==
    /\ nodes' = n
    /\ edges' = e
    /\ componentOrder' = order
    /\ currentNodeId' = cur
    /\ pendingReducerIds' = pending
    /\ nextId' = next
    /\ undoSnapshot' = Snapshot(nodes, edges, componentOrder)
    /\ redoSnapshot' = NoSnapshot
    /\ selected' = NoSelection
    /\ deleteSees' = closureAfter(n, e, order, NoSelection)
    /\ log' = Edited(n, e, order)
    /\ UNCHANGED drawingEnabled
    /\ UNCHANGED <<solverVars, memo, apiVars, authVars>>

\* handleClickDraw, no current node, click on a free dot away from every
\* pipe: a starting node is created and appended
FirstClick(p) ==
    /\ drawingEnabled
    /\ currentNodeId = Null
    /\ findNearbyNode(nodes, p) = 0
    /\ nextId <= MaxCanvasId
    /\ DrawCommit(Append(nodes, [id |-> nextId, at |-> p,
                                 type |-> getDefaultNodeType(nodes)]),
                  edges, Append(componentOrder, NodeEntry(nextId)),
                  nextId, pendingReducerIds, nextId + 1)

\* handleClickDraw, no current node, click near an existing node: the
\* drawing resumes from it
ResumeFrom(p) ==
    /\ drawingEnabled
    /\ currentNodeId = Null
    /\ findNearbyNode(nodes, p) /= 0
    /\ DrawCommit(nodes, edges, componentOrder,
                  nodes[findNearbyNode(nodes, p)].id, pendingReducerIds, nextId)

\* componentOrder after a split: the hit edge is replaced by first pipe,
\* new node, second pipe; when it is not listed they go after the from node
\* of the hit edge, or to the end
RECURSIVE replaceEdge(_, _, _, _)
replaceEdge(order, i, hitId, insertion) ==
    IF i > Len(order) THEN <<>>
    ELSE IF order[i] = EdgeEntry(hitId)
    THEN insertion \o SubSeq(order, i + 1, Len(order))
    ELSE <<order[i]>> \o replaceEdge(order, i + 1, hitId, insertion)

orderAfterSplit(order, hit, insertion) ==
    IF \E i \in 1..Len(order) : order[i] = EdgeEntry(hit.id)
    THEN replaceEdge(order, 1, hit.id, insertion)
    ELSE IF FindIndex(order, LAMBDA entry : entry = NodeEntry(hit.fromId)) /= 0
    THEN SubSeq(order, 1, FindIndex(order, LAMBDA entry : entry = NodeEntry(hit.fromId)))
         \o insertion
         \o SubSeq(order, FindIndex(order, LAMBDA entry : entry = NodeEntry(hit.fromId)) + 1,
                   Len(order))
    ELSE order \o insertion

\* handleClickDraw, no current node, click on pipe k away from every node:
\* the pipe is split at a new node on dot p
SplitPipe(k, p) ==
    /\ drawingEnabled
    /\ currentNodeId = Null
    /\ k \in 1..Len(edges)
    /\ findNearbyNode(nodes, p) = 0
    /\ findNode(nodes, edges[k].fromId) /= 0
    /\ findNode(nodes, edges[k].toId) /= 0
    /\ nextId + 2 <= MaxCanvasId
    /\ DrawCommit(Append(nodes, [id |-> nextId, at |-> p,
                                 type |-> getDefaultNodeType(nodes)]),
                  SubSeq(edges, 1, k - 1) \o SubSeq(edges, k + 1, Len(edges))
                      \o << [id |-> nextId + 1, fromId |-> edges[k].fromId,
                             toId |-> nextId],
                            [id |-> nextId + 2, fromId |-> nextId,
                             toId |-> edges[k].toId] >>,
                  orderAfterSplit(componentOrder, edges[k],
                                  << EdgeEntry(nextId + 1), NodeEntry(nextId),
                                     EdgeEntry(nextId + 2) >>),
                  nextId, pendingReducerIds \cup {nextId}, nextId + 3)

\* edges.reduce: pipes connected to node id
degreeOf(es, id) ==
    Cardinality({k \in 1..Len(es) : es[k].fromId = id \/ es[k].toId = id})

\* the start node becomes a tee when a third pipe meets it, unless it is a
\* discharge or an outlet
promoteStart(ns, startId, degreeAfter) ==
    [i \in 1..Len(ns) |->
        IF ns[i].id = startId /\ degreeAfter >= 3
           /\ ns[i].type \notin {"discharge", "outlet"}
        THEN [ns[i] EXCEPT !.type = "tee"]
        ELSE ns[i]]

\* setComponentOrder of a new segment: appended when the start node is not
\* listed or is the last entry, inserted right after the start node otherwise
orderAfterSegment(order, startId, toInsert) ==
    IF \/ FindIndex(order, LAMBDA entry : entry = NodeEntry(startId)) = 0
       \/ FindIndex(order, LAMBDA entry : entry = NodeEntry(startId)) = Len(order)
    THEN order \o toInsert
    ELSE SubSeq(order, 1, FindIndex(order, LAMBDA entry : entry = NodeEntry(startId)))
         \o toInsert
         \o SubSeq(order, FindIndex(order, LAMBDA entry : entry = NodeEntry(startId)) + 1,
                   Len(order))

\* handleClickDraw with a current node, click on dot p: a pipe from the
\* current node to the node on p, which is created when the dot is free
ContinueTo(p) ==
    /\ drawingEnabled
    /\ currentNodeId /= Null
    /\ findNode(nodes, currentNodeId) /= 0
    /\ \E created \in {findNearbyNode(nodes, p) = 0} :
       \E targetId \in {IF created THEN nextId
                        ELSE nodes[findNearbyNode(nodes, p)].id} :
       \E newEdgeId \in {IF created THEN nextId + 1 ELSE nextId} :
           /\ targetId /= currentNodeId
           /\ newEdgeId <= MaxCanvasId
           /\ DrawCommit(
                  promoteStart(
                      IF created
                      THEN Append(nodes, [id |-> targetId, at |-> p,
                                          type |-> getDefaultNodeType(nodes)])
                      ELSE nodes,
                      currentNodeId, degreeOf(edges, currentNodeId) + 1),
                  Append(edges, [id |-> newEdgeId, fromId |-> currentNodeId,
                                 toId |-> targetId]),
                  orderAfterSegment(componentOrder, currentNodeId,
                      IF created THEN <<EdgeEntry(newEdgeId), NodeEntry(targetId)>>
                      ELSE <<EdgeEntry(newEdgeId)>>),
                  targetId, pendingReducerIds \ {currentNodeId}, newEdgeId + 1)

\* handleClickDraw with a current node that no longer exists, click on a
\* free dot: the target node is created and nothing else happens
StrayClick(p) ==
    /\ drawingEnabled
    /\ currentNodeId /= Null
    /\ findNode(nodes, currentNodeId) = 0
    /\ findNearbyNode(nodes, p) = 0
    /\ nextId <= MaxCanvasId
    /\ nodes' = Append(nodes, [id |-> nextId, at |-> p,
                               type |-> getDefaultNodeType(nodes)])
    /\ nextId' = nextId + 1
    /\ selected' = NoSelection
    /\ deleteSees' = closureAfter(nodes', edges, componentOrder, NoSelection)
    /\ log' = Edited(nodes', edges, componentOrder)
    /\ UNCHANGED <<edges, componentOrder, currentNodeId, drawingEnabled,
                   pendingReducerIds, undoSnapshot, redoSnapshot>>
    /\ UNCHANGED <<solverVars, memo, apiVars, authVars>>

\* key 'd' while drawing is off
StartDrawing ==
    /\ ~drawingEnabled
    /\ drawingEnabled' = TRUE
    /\ currentNodeId' = Null
    /\ UNCHANGED <<nodes, edges, componentOrder, nextId, pendingReducerIds,
                   selected, undoSnapshot, redoSnapshot, deleteSees, log>>
    /\ UNCHANGED <<solverVars, memo, apiVars, authVars>>

\* nodes connected to at least one edge
connectedNodes(ns, es) ==
    SelectSeq(ns, LAMBDA n : \E k \in 1..Len(es) : es[k].fromId = n.id \/ es[k].toId = n.id)

\* the last node entry of the order among the nodes ns, Null when none
lastNodeId(ns, order) ==
    IF \E i \in 1..Len(order) :
           order[i].component = "node" /\ findNode(ns, order[i].id) /= 0
    THEN order[CHOOSE i \in 1..Len(order) :
                  /\ order[i].component = "node" /\ findNode(ns, order[i].id) /= 0
                  /\ \A j \in (i + 1)..Len(order) :
                         ~(order[j].component = "node" /\ findNode(ns, order[j].id) /= 0)].id
    ELSE Null

\* Escape, or key 'd' while drawing is on, and the effect that follows the
\* change from on to off: unconnected nodes are dropped, split nodes nobody
\* branched from become reducers, the last node of the order becomes an
\* outlet unless it is a discharge or an outlet
StopDrawing ==
    /\ drawingEnabled
    /\ drawingEnabled' = FALSE
    /\ currentNodeId' = Null
    /\ \E filtered \in {connectedNodes(nodes, edges)} :
           /\ nodes' = [i \in 1..Len(filtered) |->
                  IF filtered[i].id = lastNodeId(filtered, componentOrder)
                  THEN IF filtered[i].type \in {"discharge", "outlet"}
                       THEN filtered[i]
                       ELSE [filtered[i] EXCEPT !.type = "outlet"]
                  ELSE IF filtered[i].id \in pendingReducerIds
                       THEN [filtered[i] EXCEPT !.type = "reducer"]
                       ELSE filtered[i]]
           /\ componentOrder' = SelectSeq(componentOrder,
                  LAMBDA entry : entry.component /= "node"
                                 \/ findNode(filtered, entry.id) /= 0)
    /\ pendingReducerIds' = {}
    /\ UNCHANGED <<edges, nextId, selected, undoSnapshot, redoSnapshot,
                   deleteSees, log>>
    /\ UNCHANGED <<solverVars, memo, apiVars, authVars>>

\* the components a click can select while drawing is off
Selectable ==
    {NodeEntry(nodes[i].id) : i \in 1..Len(nodes)}
        \cup {EdgeEntry(edges[k].id) : k \in 1..Len(edges)}
        \cup {NoSelection}

\* handleClick while drawing is off: a node, a pipe or empty space
Select(c) ==
    /\ ~drawingEnabled
    /\ c \in Selectable
    /\ c /= selected
    /\ selected' = c
    /\ deleteSees' = closureAfter(nodes, edges, componentOrder, c)
    /\ UNCHANGED <<nodes, edges, componentOrder, currentNodeId, drawingEnabled,
                   nextId, pendingReducerIds, undoSnapshot, redoSnapshot, log>>
    /\ UNCHANGED <<solverVars, memo, apiVars, authVars>>

\* the edges handleDeleteSelected removes: the selected one, or those at
\* the selected node
edgeIdsToDelete(sel) ==
    IF sel.component = "edge" THEN {sel.id}
    ELSE {edges[k].id : k \in {j \in 1..Len(edges) :
                                   edges[j].fromId = sel.id \/ edges[j].toId = sel.id}}

\* handleDeleteSelected from the popover of the selected component
DeleteSelected ==
    /\ selected /= NoSelection
    /\ undoSnapshot' = deleteSees
    /\ redoSnapshot' = NoSnapshot
    /\ nodes' = SelectSeq(nodes, LAMBDA n :
                    ~(selected.component = "node" /\ n.id = selected.id))
    /\ edges' = SelectSeq(edges, LAMBDA e : e.id \notin edgeIdsToDelete(selected))
    /\ componentOrder' = SelectSeq(componentOrder, LAMBDA entry :
                    /\ entry /= selected
                    /\ ~(entry.component = "edge"
                         /\ entry.id \in edgeIdsToDelete(selected)))
    /\ selected' = NoSelection
    /\ deleteSees' = Snapshot(nodes', edges', componentOrder')
    /\ log' = Edited(nodes', edges', componentOrder')
    /\ UNCHANGED <<currentNodeId, drawingEnabled, nextId, pendingReducerIds>>
    /\ UNCHANGED <<solverVars, memo, apiVars, authVars>>

\* Ctrl+Z
Undo ==
    /\ IF ~undoSnapshot.taken
       THEN UNCHANGED <<nodes, edges, componentOrder, undoSnapshot,
                        redoSnapshot, selected, deleteSees>>
       ELSE /\ redoSnapshot' = Snapshot(nodes, edges, componentOrder)
            /\ nodes' = undoSnapshot.nodes
            /\ edges' = undoSnapshot.edges
            /\ componentOrder' = undoSnapshot.componentOrder
            /\ undoSnapshot' = NoSnapshot
            /\ selected' = NoSelection
            /\ deleteSees' = closureAfter(undoSnapshot.nodes, undoSnapshot.edges,
                                          undoSnapshot.componentOrder, NoSelection)
    /\ log' = [lastKey |-> IF undoSnapshot.taken THEN "undo" ELSE "undo-none",
               changedFrom |-> NoSnapshot,
               undoneFrom |-> Snapshot(nodes, edges, componentOrder)]
    /\ UNCHANGED <<currentNodeId, drawingEnabled, nextId, pendingReducerIds>>
    /\ UNCHANGED <<solverVars, memo, apiVars, authVars>>

\* Ctrl+Y
Redo ==
    /\ IF ~redoSnapshot.taken
       THEN UNCHANGED <<nodes, edges, componentOrder, undoSnapshot,
                        redoSnapshot, selected, deleteSees>>
       ELSE /\ undoSnapshot' = Snapshot(nodes, edges, componentOrder)
            /\ nodes' = redoSnapshot.nodes
            /\ edges' = redoSnapshot.edges
            /\ componentOrder' = redoSnapshot.componentOrder
            /\ redoSnapshot' = NoSnapshot
            /\ selected' = NoSelection
            /\ deleteSees' = closureAfter(redoSnapshot.nodes, redoSnapshot.edges,
                                          redoSnapshot.componentOrder, NoSelection)
    /\ log' = [lastKey |-> "redo", changedFrom |-> NoSnapshot,
               undoneFrom |-> NoSnapshot]
    /\ UNCHANGED <<currentNodeId, drawingEnabled, nextId, pendingReducerIds>>
    /\ UNCHANGED <<solverVars, memo, apiVars, authVars>>

\* drawing alone: the clicks of drawing mode, and the mode going on and off
NextCanvas ==
    \/ \E p \in Dots : FirstClick(p)
    \/ \E p \in Dots : ResumeFrom(p)
    \/ \E p \in Dots : ContinueTo(p)
    \/ \E k \in 1..MaxCanvasId : \E p \in Dots : SplitPipe(k, p)
    \/ StartDrawing
    \/ StopDrawing

SpecCanvas == Init /\ [][NextCanvas]_vars

\* the largest id handed out while the canvas is also edited
MaxEditingId == 4

\* drawing without splits, selection, delete, Ctrl+Z and Ctrl+Y
NextEditing ==
    \/ \E p \in Dots : FirstClick(p) /\ nextId' <= MaxEditingId + 1
    \/ \E p \in Dots : ResumeFrom(p)
    \/ \E p \in Dots : ContinueTo(p) /\ nextId' <= MaxEditingId + 1
    \/ \E p \in Dots : StrayClick(p) /\ nextId' <= MaxEditingId + 1
    \/ StartDrawing
    \/ StopDrawing
    \/ \E c \in Selectable : Select(c)
    \/ DeleteSelected
    \/ Undo
    \/ Redo

SpecEditing == Init /\ [][NextEditing]_vars

---------------------------------------------------------------------------
(* The auth callback page (app/auth/callback/page.tsx), one mount of       *)
(* AuthCallbackInner.  handleAuth, the listener of onAuthStateChange, the  *)
(* fallback timer and the cleanup of the effect run on one thread and      *)
(* interleave at every await.  pushed lists the calls of router.push, each *)
(* with the route and whether the cleanup had run before it.               *)

\* auth events the listener is given in one mount
MaxAuthEvents == 2

Links == [code : BOOLEAN, organization_code : BOOLEAN]

\* the refs and locals of the effect as one value
Page ==
    [hasRedirected |-> hasRedirected, redirecting |-> redirecting,
     subscription |-> subscription, timeoutId |-> timeoutId, pushed |-> pushed]

\* router.push(route)
push(page, route) ==
    [page EXCEPT !.pushed = Append(@, [route |-> route, afterCleanup |-> cleanedUp])]

\* subscription.unsubscribe() when there is a subscription
unsubscribe(page) ==
    [page EXCEPT !.subscription = IF @ = "active" THEN "unsubscribed" ELSE @]

\* clearTimeout(timeoutId) when there is a timer; one that has fired stays so
clearTimer(page) ==
    [page EXCEPT !.timeoutId = IF @ = "set" THEN "cleared" ELSE @]

\* the finally block of redirectUser
finally(page) == clearTimer(unsubscribe(page))

\* redirectUser up to its first await: nothing when hasRedirected is set;
\* with an organization_code in the user metadata the push and the finally
\* block, otherwise the query of organization_members is under way
redirectUser(page) ==
    IF page.hasRedirected THEN page
    ELSE IF link.organization_code
    THEN finally(push([page EXCEPT !.hasRedirected = TRUE], "/orgs"))
    ELSE [page EXCEPT !.hasRedirected = TRUE, !.redirecting = "membership"]

\* the refs and locals take the values of page
Become(page) ==
    /\ hasRedirected' = page.hasRedirected
    /\ redirecting' = page.redirecting
    /\ subscription' = page.subscription
    /\ timeoutId' = page.timeoutId
    /\ pushed' = page.pushed

NotAuth == <<solverVars, memo, apiVars, canvasVars>>

\* the effect runs: handleAuth up to its first await
Mount ==
    /\ handleAuthAt = "start"
    /\ handleAuthAt' = IF link.code /\ ~hasRedirected THEN "exchange" ELSE "getSession"
    /\ UNCHANGED <<hasRedirected, redirecting, subscription, timeoutId, pushed,
                   cleanedUp, link, authEvents, session>>
    /\ UNCHANGED NotAuth

\* exchangeCodeForSession settles: with an error, with a session, without
\* one, or it throws
ExchangeReturns(result) ==
    /\ handleAuthAt = "exchange"
    /\ result \in {"error", "user", "none", "throws"}
    /\ handleAuthAt' = IF result \in {"error", "none"} THEN "getSession" ELSE "done"
    /\ session' = IF result = "user" THEN "user" ELSE session
    /\ Become(IF result = "user" THEN redirectUser(Page)
              ELSE IF result = "throws" THEN push(Page, "/login")
              ELSE Page)
    /\ UNCHANGED <<cleanedUp, link, authEvents>>
    /\ UNCHANGED NotAuth

\* getSession of handleAuth settles: with an error, with a session (the one
\* held, or one made from the hash of the link), without one, or it throws;
\* without one the listener is subscribed and the timer set
GetSessionReturns(result) ==
    /\ handleAuthAt = "getSession"
    /\ result \in {"error", "user", "throws"} \cup (IF session = "none" THEN {"none"} ELSE {})
    /\ handleAuthAt' = "done"
    /\ session' = IF result = "user" THEN "user" ELSE session
    /\ Become(IF result = "user" THEN redirectUser(Page)
              ELSE IF result = "none"
              THEN [Page EXCEPT !.subscription = "active", !.timeoutId = "set"]
              ELSE push(Page, "/login"))
    /\ UNCHANGED <<cleanedUp, link, authEvents>>
    /\ UNCHANGED NotAuth

\* the query of organization_members settles: a membership, none, or it throws
MembershipReturns(result) ==
    /\ redirecting = "membership"
    /\ result \in {"found", "none", "throws"}
    /\ Become(finally(push([Page EXCEPT !.redirecting = "done"],
                           IF result = "found" THEN "/orgs" ELSE "/dashboard")))
    /\ UNCHANGED <<handleAuthAt, cleanedUp, link, authEvents, session>>
    /\ UNCHANGED NotAuth

\* the listener of onAuthStateChange is called
AuthEvent(event) ==
    /\ subscription = "active"
    /\ authEvents < MaxAuthEvents
    /\ event \in {"SIGNED_IN", "SIGNED_OUT"}
    /\ authEvents' = authEvents + 1
    /\ session' = IF event = "SIGNED_IN" THEN "user" ELSE "none"
    /\ Become(IF event = "SIGNED_IN" /\ ~hasRedirected THEN redirectUser(Page)
              ELSE IF event = "SIGNED_OUT" /\ ~hasRedirected THEN push(Page, "/login")
              ELSE Page)
    /\ UNCHANGED <<handleAuthAt, cleanedUp, link>>
    /\ UNCHANGED NotAuth

\* the fallback timer fires after one second: getSession is called when
\* hasRedirected is not set
TimerFires ==
    /\ timeoutId = "set"
    /\ timeoutId' = IF hasRedirected THEN "done" ELSE "getSession"
    /\ UNCHANGED <<hasRedirected, handleAuthAt, redirecting, subscription, pushed,
                   cleanedUp, link, authEvents, session>>
    /\ UNCHANGED NotAuth

\* getSession of the timer settles: with a session, without one, or it throws
TimerSessionReturns(result) ==
    /\ timeoutId = "getSession"
    /\ result \in {"user", "throws"} \cup (IF session = "none" THEN {"none"} ELSE {})
    /\ session' = IF result = "user" THEN "user" ELSE session
    /\ Become(IF result = "user" THEN redirectUser([Page EXCEPT !.timeoutId = "done"])
              ELSE IF result = "none"
              THEN unsubscribe(push([Page EXCEPT !.timeoutId = "done"], "/login"))
              ELSE [Page EXCEPT !.timeoutId = "done"])
    /\ UNCHANGED <<handleAuthAt, cleanedUp, link, authEvents>>
    /\ UNCHANGED NotAuth

\* the page is unmounted: the cleanup of the effect
Cleanup ==
    /\ handleAuthAt /= "start"
    /\ ~cleanedUp
    /\ cleanedUp' = TRUE
    /\ Become(clearTimer(unsubscribe([Page EXCEPT !.hasRedirected = TRUE])))
    /\ UNCHANGED <<handleAuthAt, link, authEvents, session>>
    /\ UNCHANGED NotAuth

InitAuth ==
    /\ EmptyProject
    /\ CanvasInit
    /\ \E l \in Links : AuthInitFor(l)

NextAuth ==
    \/ Mount
    \/ \E result \in {"error", "user", "none", "throws"} : ExchangeReturns(result)
    \/ \E result \in {"error", "user", "none", "throws"} : GetSessionReturns(result)
    \/ \E result \in {"found", "none", "throws"} : MembershipReturns(result)
    \/ \E event \in {"SIGNED_IN", "SIGNED_OUT"} : AuthEvent(event)
    \/ TimerFires
    \/ \E result \in {"user", "none", "throws"} : TimerSessionReturns(result)
    \/ Cleanup

SpecAuth == InitAuth /\ [][NextAuth]_vars

---------------------------------------------------------------------------
(* Properties.  Path p of the result is rows[p]; organized[p] is the       *)
(* component list it was projected from, position by position.             *)

Last(path) == path[Len(path)]

HasDischarge == \E i \in 1..Len(components) : components[i].type = "discharge"
OutletPositions == {i \in 1..Len(components) : components[i].type = "outlet"}

\* C1: after fillCapacity(fillTee(..)), for every tee_main with a numeric
\* branch reference r, its capacity plus the capacity of the tee_side
\* carrying r equals the capacity of the nearest pipe before the tee_main.
C1_TeeFlowConservation ==
    \A i \in 1..Len(capacityFilled) :
        \A j \in 1..Len(capacityFilled) :
            LET main == capacityFilled[i]
                side == capacityFilled[j]
                pipeIdx == beforePipeIdxOf(capacityFilled, i)
            IN  ( /\ main.type = "tee_main" /\ main.tee_ref /= Null
                  /\ side.type = "tee_side" /\ side.tee_ref = main.tee_ref
                  /\ pipeIdx /= 0 )
                => main.capacity + side.capacity = capacityFilled[pipeIdx].capacity

\* C2: when a discharge precedes every outlet of the input, every outlet of
\* the input is the last element of some returned path.
C2_OutletCoverage ==
    ( \E d \in 1..Len(components) :
          /\ components[d].type = "discharge"
          /\ \A o \in OutletPositions : d < o )
    => \A o \in OutletPositions :
           \E p \in 1..Len(rows) :
               /\ Len(rows[p]) > 0
               /\ Last(rows[p]).src = o
               /\ Last(rows[p]).item = "outlet"

\* the candidate kept for the outlet that candidate k ends at: the first
\* candidate ending at that outlet, cut after it
KeptFor(k) ==
    LET o == candidates[k][lastOutletIdxOf(candidates[k])].id
        same == {n \in 1..Len(candidates) :
                    /\ lastOutletIdxOf(candidates[n]) /= 0
                    /\ candidates[n][lastOutletIdxOf(candidates[n])].id = o}
        first == CHOOSE n \in same : \A m \in same : n <= m
    IN  SubSeq(candidates[first], 1, lastOutletIdxOf(candidates[first]))

\* C3: no two returned paths end at the same outlet id; of the candidate
\* paths ending at one outlet only the first built is returned, cut at that
\* outlet (the returned path is that candidate plus the reducers spliced in).
C3_OnePathPerOutlet ==
    /\ \A p, q \in 1..Len(organized) :
           ( /\ p /= q
             /\ Len(organized[p]) > 0 /\ Len(organized[q]) > 0
             /\ Last(organized[p]).type = "outlet"
             /\ Last(organized[q]).type = "outlet" )
           => Last(organized[p]).id /= Last(organized[q]).id
    /\ \A k \in 1..Len(candidates) :
           lastOutletIdxOf(candidates[k]) /= 0
           => /\ Cardinality({p \in 1..Len(byOutlet) : byOutlet[p] = KeptFor(k)}) = 1
              /\ \A p \in 1..Len(byOutlet) :
                     ( /\ Len(byOutlet[p]) > 0
                       /\ Last(byOutlet[p]).type = "outlet"
                       /\ Last(byOutlet[p]).id = Last(KeptFor(k)).id )
                     => /\ byOutlet[p] = KeptFor(k)
                        /\ SelectSeq(organized[p],
                                     LAMBDA c : ~(c.type = "reducer" /\ c.src = 0))
                           = KeptFor(k)
    /\ Len(organized) = Len(byOutlet)
    /\ Len(rows) = Len(organized)

\* C3 witness: two candidate paths end at the same outlet
C3_Witness ==
    \E k, n \in 1..Len(candidates) :
        /\ k < n
        /\ lastOutletIdxOf(candidates[k]) /= 0
        /\ lastOutletIdxOf(candidates[n]) /= 0
        /\ candidates[k][lastOutletIdxOf(candidates[k])].id
           = candidates[n][lastOutletIdxOf(candidates[n])].id

\* C4: with a discharge and at least one outlet in the input, every returned
\* path holds exactly one outlet, and it is the path's last element.
C4_SingleOutletPerPath ==
    (HasDischarge /\ OutletPositions /= {})
    => \A p \in 1..Len(rows) :
           /\ Len(rows[p]) > 0
           /\ Last(rows[p]).item = "outlet"
           /\ \A i \in 1..(Len(rows[p]) - 1) : rows[p][i].item /= "outlet"

\* C5: when the input contains a discharge, the first element of every
\* returned (non-empty) path is that discharge.
C5_PathsStartAtDischarge ==
    HasDischarge
    => \A p \in 1..Len(rows) :
           Len(rows[p]) > 0
           => /\ rows[p][1].item = "discharge"
              /\ rows[p][1].src = FindIndex(components, IsDischarge)

\* C6 as claimed: without a discharge in the input the solver raises nothing
\* and returns exactly one path, equal to the whole input list.
C6_NoDischargeWholeInput ==
    ~HasDischarge
    => /\ ~threw
       /\ Len(rows) = 1
       /\ Len(rows[1]) = Len(components)
       /\ \A i \in 1..Len(rows[1]) :
              /\ rows[1][i].src = i
              /\ rows[1][i].item = components[i].type

IsInputRow(r) == r.src /= 0

\* C6 amended: for a non-empty input without a discharge the solver raises
\* nothing and returns exactly one path: the input components in input
\* order, each once (a generic tee retyped tee_main), with the synthetic
\* elbow90 / tee_side / elbow45 / reducer nodes of the normalizer and the
\* reducer pass between them.
C6_NoDischargeSinglePath ==
    (~HasDischarge /\ Len(components) > 0)
    => /\ ~threw
       /\ Len(rows) = 1
       /\ LET kept == SelectSeq(rows[1], IsInputRow)
          IN  /\ Len(kept) = Len(components)
              /\ \A i \in 1..Len(kept) :
                     /\ kept[i].src = i
                     /\ kept[i].item = IF components[i].type = "tee"
                                       THEN "tee_main" ELSE components[i].type
       /\ \A i \in 1..Len(rows[1]) :
              rows[1][i].src = 0
              => rows[1][i].item \in {"elbow90", "tee_side", "elbow45", "reducer"}

\* C6 witness: no discharge, and the single path holds synthetic nodes
C6_Witness ==
    /\ ~HasDischarge
    /\ Len(rows) = 1
    /\ \E i, j \in 1..Len(rows[1]) :
           /\ rows[1][i].src = 0 /\ rows[1][i].item = "tee_side"
           /\ rows[1][j].src = 0 /\ rows[1][j].item = "reducer"

\* C7: the constructor never raises, toRows returns one row-array per
\* organized path with one row per component, and the empty list gives [].
C7_NeverAborts ==
    /\ ~threw
    /\ Len(rows) = Len(organized)
    /\ \A p \in 1..Len(rows) :
           /\ Len(rows[p]) = Len(organized[p])
           /\ \A i \in 1..Len(rows[p]) : rows[p][i].item = organized[p][i].type
    /\ (Len(components) = 0 => rows = <<>>)
    /\ (Len(components) > 0 => Len(rows) >= 1)

\* C7 witness: a malformed input (no discharge, a pipe whose ends name no
\* node, an outlet whose branch reference matches no tee) still gives rows
C7_Witness ==
    /\ ~HasDischarge
    /\ \E i \in 1..Len(components) :
           /\ components[i].type = "pipe"
           /\ components[i].diameter = Null
           /\ ~\E n \in 1..Len(components) :
                  /\ components[n].component = "node"
                  /\ components[n].id = components[i].toId
    /\ \E i \in 1..Len(components) :
           /\ components[i].type = "outlet"
           /\ components[i].tee_ref /= Null
           /\ components[i].capacity = Null
           /\ ~\E n \in 1..Len(components) : StartsWithTee(components[n].type)
    /\ Len(rows) = 1
    /\ Len(rows[1]) > Len(components)

\* C8: every output row whose resolved diameter d is 0 has V, Re, f, kred
\* and ktee all exactly 0.
C8_ZeroDiameterSafety ==
    \A p \in 1..Len(rows) :
        \A i \in 1..Len(rows[p]) :
            rows[p][i].d = 0
            => /\ rows[p][i].V = "zero"
               /\ rows[p][i].Re = "zero"
               /\ rows[p][i].f = "zero"
               /\ RIsZero(rows[p][i].kred)
               /\ RIsZero(rows[p][i].ktee)

\* C9: no formula divides by zero: the area ratio and the loss coefficients
\* of every row are finite, in particular ktee of a tee_main row with d > 0
\* whose d90 lookup yields 0.
C9_DivisionGuard ==
    \A p \in 1..Len(rows) :
        \A i \in 1..Len(rows[p]) :
            /\ RIsFinite(rows[p][i].a)
            /\ RIsFinite(rows[p][i].kred)
            /\ RIsFinite(rows[p][i].ktee)

\* C10: every row derived from an input component has index equal to that
\* component's draw_index, in every path in which it appears.
C10_DrawIndexPreserved ==
    \A p \in 1..Len(rows) :
        \A i \in 1..Len(rows[p]) :
            rows[p][i].src /= 0
            => /\ canonicalComponents[rows[p][i].src].draw_index /= Null
               /\ rows[p][i].index
                  = canonicalComponents[rows[p][i].src].draw_index

\* C10 witness: one input component appears in two paths, and a row derived
\* from an input component sits at a path position other than its draw index
C10_Witness ==
    /\ \E p, q \in 1..Len(rows) :
           /\ p /= q
           /\ \E i \in 1..Len(rows[p]) : \E j \in 1..Len(rows[q]) :
                  /\ rows[p][i].src /= 0
                  /\ rows[p][i].src = rows[q][j].src
                  /\ rows[p][i].index = rows[q][j].index
                  /\ i /= j
    /\ \E p \in 1..Len(rows) : \E i \in 1..Len(rows[p]) :
           rows[p][i].src /= 0 /\ rows[p][i].index /= i

AsDrawn(c, k) == \E d \in NodeChoices \cup PipeChoices : c = Place(d, k)

NodesWithId(n) ==
    {k \in 1..Len(components) :
        /\ components[k].component = "node"
        /\ components[k].id = n
        /\ components[k].x /= Null /\ components[k].y /= Null}

\* verticality of the pipe drawn at position k, from the drawing alone:
\* both end nodes exist with coordinates, |x_from - x_to| <= 0.001 and
\* |y_from - y_to| > 0.001 (coordinates are whole units here)
VerticalAsDrawn(k) ==
    /\ components[k].fromId /= Null /\ components[k].toId /= Null
    /\ \E f \in NodesWithId(components[k].fromId) :
       \E t \in NodesWithId(components[k].toId) :
           /\ 1000 * Abs(components[f].x - components[t].x) <= 1
           /\ 1000 * Abs(components[f].y - components[t].y) > 1

\* C13: every row of a pipe carries the vertical flag that follows from the
\* drawing (so the same flag in every path holding the pipe), and every
\* row that is not a pipe has vertical = false.
C13_VerticalStable ==
    \A p \in 1..Len(rows) :
        \A i \in 1..Len(rows[p]) :
            IF rows[p][i].item = "pipe" /\ rows[p][i].src /= 0
            THEN rows[p][i].vertical = VerticalAsDrawn(rows[p][i].src)
            ELSE rows[p][i].vertical = FALSE

\* C13 witness: a vertical pipe has rows in two paths
C13_Witness ==
    \E p, q \in 1..Len(rows) :
        /\ p /= q
        /\ \E i \in 1..Len(rows[p]) : \E j \in 1..Len(rows[q]) :
               /\ rows[p][i].item = "pipe"
               /\ rows[p][i].vertical
               /\ rows[q][j].src = rows[p][i].src
               /\ rows[q][j].vertical

\* the diameters of a list, position by position
DiametersOf(comps) == [i \in 1..Len(comps) |-> comps[i].diameter]

\* C14: fillDiameter applied to its own output changes no diameter, both
\* for the list the solver fills (the capacity-filled list) and for the
\* drawing itself taken as input.
C14_FillDiameterIdempotent ==
    /\ filledComponents = fillDiameter(capacityFilled)
    /\ DiametersOf(fillDiameter(filledComponents)) = DiametersOf(filledComponents)
    /\ DiametersOf(fillDiameter(fillDiameter(canonicalComponents)))
       = DiametersOf(fillDiameter(canonicalComponents))

\* C14 witness: the first application stamped a component that had no
\* diameter, and the list holds two different diameters
C14_Witness ==
    /\ \E k \in 1..Len(capacityFilled) :
           /\ capacityFilled[k].diameter = Null
           /\ filledComponents[k].diameter > 0
    /\ \E i, j \in 1..Len(filledComponents) :
           /\ i < j
           /\ filledComponents[i].diameter > 0
           /\ filledComponents[j].diameter > 0
           /\ filledComponents[i].diameter /= filledComponents[j].diameter

\* positions in organized[p] of the components of byOutlet[p], in order:
\* everything but the reducers spliced in
KeptAt(p) ==
    SelectSeq([j \in 1..Len(organized[p]) |-> j],
              LAMBDA j : organized[p][j].type /= "reducer")

\* pipe, plain node, pipe at positions i, i + 1, i + 2 of byOutlet[p], both
\* pipes with a positive diameter
PipeNodePipe(p, i) ==
    /\ i + 2 <= Len(byOutlet[p])
    /\ byOutlet[p][i].type = "pipe" /\ byOutlet[p][i].diameter > 0
    /\ byOutlet[p][i + 1].component = "node"
    /\ byOutlet[p][i + 1].type /= "reducer"
    /\ byOutlet[p][i + 2].type = "pipe" /\ byOutlet[p][i + 2].diameter > 0

---------------------------------------------------------------------------
(* The prepared tee of SpecPrepared.                                       *)

ItemsOf(path) == [i \in 1..Len(path) |-> path[i].item]
WithoutReducers(path) == SelectSeq(path, LAMBDA r : r.item # "reducer")
MainItems == <<"discharge", "pipe", "tee_main", "pipe", "outlet">>
SideItems == <<"discharge", "pipe", "tee_side", "elbow45", "pipe", "outlet">>

\* the Q of the row of path p that renders input component k
QOfInput(p, k) == {rows[p][i].Q : i \in {j \in 1..Len(rows[p]) : rows[p][j].src = k}}

PreparedSolved == organized # <<>> /\ components \in SimpleTeeInputs

\* positions 2, 4 and 8 of the prepared list are its pipes, 5 and 9 its outlets
PreparedFlows ==
    /\ \A p \in 1..Len(rows) :
            QOfInput(p, 2) = {components[5].capacity + components[9].capacity}
    /\ QOfInput(1, 4) = {components[5].capacity}
    /\ QOfInput(2, 8) = {components[9].capacity}

---------------------------------------------------------------------------
(* The order of the paths.                                                 *)

\* the paths as splitByOutlet holds them before it reorders them
dedupedOf(comps) ==
    LET deduped == dedupeByOutlet(candidatePaths(comps), 1, {}, <<>>)
    IN  IF Len(deduped) = 0
        THEN <<fallbackPath(comps, FindIndex(comps, IsDischarge))>>
        ELSE deduped

DistOf(k) == metaOf(byOutlet[k]).distFromTee
RefOf(k) == metaOf(byOutlet[k]).teeRef

\* where path k of the result stood before the reordering
OriginalPos(k) ==
    CHOOSE j \in 1..Len(dedupedOf(filledComponents)) :
        dedupedOf(filledComponents)[j] = byOutlet[k]

SomeDistance ==
    /\ \E i \in 1..Len(filledComponents) : filledComponents[i].type = "discharge"
    /\ \E k \in 1..Len(byOutlet) : DistOf(k) > 0

\* the first path is a farthest one
FarthestFirst == \A k \in 1..Len(byOutlet) : DistOf(k) <= DistOf(1)

\* a path on the first path's branch reference, if any, is second
SiblingSecond ==
    (\E k \in 2..Len(byOutlet) : RefOf(k) = RefOf(1)) => RefOf(2) = RefOf(1)

\* the position of the first path after the farthest one and its sibling
RestFrom == IF Len(byOutlet) >= 2 /\ RefOf(2) = RefOf(1) THEN 3 ELSE 2

\* from position `from` on: distances do not increase, and paths of
\* distance 0 keep the order they had
OrderedFrom(from) ==
    \A i, j \in from..Len(byOutlet) :
        i < j => /\ DistOf(i) >= DistOf(j)
                 /\ (DistOf(i) = 0 /\ DistOf(j) = 0) => OriginalPos(i) < OriginalPos(j)

\* every path of distance 0 stands after every path of positive distance,
\* and those paths keep the order they had
ZeroDistanceLast ==
    \A i, j \in 1..Len(byOutlet) :
        (i < j /\ DistOf(i) = 0) =>
            DistOf(j) = 0 /\ OriginalPos(i) < OriginalPos(j)

\* C17 as stated: when some path has a positive distance from its tee, the
\* first path has the greatest distance, the second shares the first's
\* branch reference if such a path exists, the remaining ones are in
\* non-increasing distance order, and all paths of distance 0 come last in
\* their original relative order.
C17_ZeroDistanceAlwaysLast ==
    SomeDistance =>
        FarthestFirst /\ SiblingSecond /\ OrderedFrom(RestFrom) /\ ZeroDistanceLast

\* C17: when some path has a positive distance from its tee, the result
\* is a rearrangement of the paths in which the first has the greatest
\* distance, the second shares the first's branch reference if such a path
\* exists -- whatever its distance --, and the paths after these two are in
\* non-increasing distance order, those of distance 0 last and in their
\* original relative order.
C17_PathOrdering ==
    SomeDistance =>
        /\ Len(byOutlet) = Len(dedupedOf(filledComponents))
        /\ \A j \in 1..Len(byOutlet) :
               \E k \in 1..Len(byOutlet) : byOutlet[k] = dedupedOf(filledComponents)[j]
        /\ FarthestFirst
        /\ SiblingSecond
        /\ OrderedFrom(RestFrom)

\* three paths: a sibling of distance 0 stands second, before a path of
\* positive distance, and the order is not the one the paths had
C17_Witness ==
    /\ SomeDistance
    /\ Len(byOutlet) >= 3
    /\ RefOf(2) = RefOf(1)
    /\ DistOf(2) = 0
    /\ DistOf(3) > 0
    /\ byOutlet # dedupedOf(filledComponents)

---------------------------------------------------------------------------
(* /api/projects without an admin client.                                  *)

---------------------------------------------------------------------------
(* fillTee: tees and the outlets paired with them.                         *)

\* the tee_main nodes and the outlets of the list fillTee returns, in order
TeesFilled == teeIndexesOf(teeFilled)
OutletsFilled == outletIndexesOf(teeFilled)
PairCount == Min(Len(TeesFilled), Len(OutletsFilled))

\* the reference the k-th outlet had in the caller's array
OwnRef(k) == components[teeFilled[OutletsFilled[k]].src].tee_ref

TeesNormalized ==
    /\ \A i \in 1..Len(teeFilled) : teeFilled[i].type # "tee"
    /\ \A k \in 1..Len(components) :
          components[k].type = "tee" =>
              \E i \in 1..Len(teeFilled) :
                  /\ teeFilled[i].src = k
                  /\ teeFilled[i].type = "tee_main"
                  /\ IsNumber(teeFilled[i].tee_ref)

PairedOutlets ==
    \A k \in 1..PairCount :
        teeFilled[OutletsFilled[k]].tee_ref =
            IF OwnRef(k) = Null THEN teeFilled[TeesFilled[k]].tee_ref ELSE OwnRef(k)

\* C19 as stated: after fillTee no component is a generic tee, every
\* former tee is a tee_main with a numeric reference, the k-th outlet, for
\* k up to min(#tee_main, #outlets), carries the k-th tee_main's reference
\* if it had none and its own otherwise, and the outlets beyond that count
\* have no reference.
C19_UnpairedOutletsBare ==
    /\ TeesNormalized
    /\ PairedOutlets
    /\ \A k \in (PairCount + 1)..Len(OutletsFilled) :
          teeFilled[OutletsFilled[k]].tee_ref = Null

\* C19: after fillTee no component is a generic tee, every former tee is
\* a tee_main with a numeric reference, the k-th outlet, for k up to
\* min(#tee_main, #outlets), carries the k-th tee_main's reference if it
\* had none and its own otherwise, and the outlets beyond that count are
\* given none: each has the reference it came with, if any.
C19_TeePairing ==
    /\ TeesNormalized
    /\ PairedOutlets
    /\ \A k \in (PairCount + 1)..Len(OutletsFilled) :
          teeFilled[OutletsFilled[k]].tee_ref = OwnRef(k)

\* a former tee, an outlet that took its reference, and two outlets beyond
\* the count: one that came with a reference and one that came without
C19_Witness ==
    /\ \E k \in 1..Len(components) : components[k].type = "tee"
    /\ \E k \in 1..PairCount :
          OwnRef(k) = Null /\ IsNumber(teeFilled[OutletsFilled[k]].tee_ref)
    /\ \E k \in (PairCount + 1)..Len(OutletsFilled) : IsNumber(OwnRef(k))
    /\ \E k \in (PairCount + 1)..Len(OutletsFilled) : OwnRef(k) = Null

---------------------------------------------------------------------------
(* fillTee: one tee_main and at most one tee_side per branch reference.    *)

\* positions of the list fillTee returns that hold a node of the type with
\* a numeric reference
Referenced(type) ==
    {i \in 1..Len(teeFilled) :
        teeFilled[i].type = type /\ IsNumber(teeFilled[i].tee_ref)}

\* C20: in the list fillTee returns, two distinct tee_main nodes never
\* carry the same branch reference -- generic tees given a reference
\* beside tees that came with one included -- and no two tee_side nodes
\* carry the same branch reference.
C20_BranchRefsUnique ==
    \A type \in {"tee_main", "tee_side"} :
        \A i, j \in Referenced(type) :
            i # j => teeFilled[i].tee_ref # teeFilled[j].tee_ref

---------------------------------------------------------------------------
(* fillTee: the side branch spliced after an outlet.                       *)

\* positions of the tee_side nodes fillTee made itself
InsertedSides ==
    {i \in 1..Len(teeFilled) : teeFilled[i].type = "tee_side" /\ teeFilled[i].src = 0}

\* every outlet with a reference is directly followed by a matching tee_side
SideFollowsOutlet ==
    \A i \in 1..Len(teeFilled) :
        HasTeeRefOutlet(teeFilled[i]) =>
            /\ i + 1 <= Len(teeFilled)
            /\ teeFilled[i + 1].type = "tee_side"
            /\ teeFilled[i + 1].tee_ref = teeFilled[i].tee_ref

\* an inserted tee_side stands right after its outlet, has the outlet's
\* draw_index, and an inserted elbow45 with the same reference follows it
InsertedSideShape ==
    \A i \in InsertedSides :
        /\ i > 1
        /\ HasTeeRefOutlet(teeFilled[i - 1])
        /\ teeFilled[i].tee_ref = teeFilled[i - 1].tee_ref
        /\ teeFilled[i].draw_index = teeFilled[i - 1].draw_index
        /\ IsNumber(teeFilled[i].draw_index)
        /\ i + 1 <= Len(teeFilled)
        /\ teeFilled[i + 1].type = "elbow45"
        /\ teeFilled[i + 1].src = 0
        /\ teeFilled[i + 1].tee_ref = teeFilled[i].tee_ref

\* input positions k whose outlet is followed, in the caller's array, by a
\* tee_side that carries the reference the outlet ends up with
AlreadyPaired ==
    {k \in 1..(Len(components) - 1) :
        /\ components[k].type = "outlet"
        /\ components[k + 1].type = "tee_side"
        /\ \E i \in 1..Len(teeFilled) :
              /\ teeFilled[i].src = k
              /\ IsNumber(teeFilled[i].tee_ref)
              /\ teeFilled[i].tee_ref = components[k + 1].tee_ref}

\* C21: after fillTee every outlet with a branch reference is directly
\* followed by a tee_side with that reference; every tee_side fillTee
\* inserted has the draw_index of the outlet before it and is directly
\* followed by an elbow45 with the same reference; and an outlet that was
\* already followed by a matching tee_side is still followed by that one,
\* no other being put between or after them.
C21_SideBranchInsertion ==
    /\ SideFollowsOutlet
    /\ InsertedSideShape
    /\ \A k \in AlreadyPaired :
          \A i \in 1..Len(teeFilled) :
              teeFilled[i].src = k =>
                  /\ teeFilled[i + 1].src = k + 1
                  /\ (i + 2 <= Len(teeFilled) => (i + 2) \notin InsertedSides)

\* one list with an outlet that was given a side branch and an outlet
\* that already had one
C21_Witness ==
    /\ InsertedSides # {}
    /\ AlreadyPaired # {}
    /\ \E i \in 1..Len(teeFilled) :
          HasTeeRefOutlet(teeFilled[i]) /\ components[teeFilled[i].src].tee_ref = Null

---------------------------------------------------------------------------
(* fillTee: the elbow forced at a tee.                                     *)

\* an elbow90 made by fillTee stands right after position i and carries
\* the reference of the node at i
ElbowAfter(i) ==
    /\ i + 1 <= Len(teeFilled)
    /\ teeFilled[i + 1].type = "elbow90"
    /\ teeFilled[i + 1].src = 0
    /\ teeFilled[i + 1].tee_ref = teeFilled[i].tee_ref

\* the nearest pipes around position i exist and their canonical vertical
\* flags differ
VerticalityChangesAt(i) ==
    /\ beforePipeIdxOf(teeFilled, i) # 0
    /\ afterPipeIdxOf(teeFilled, i) # 0
    /\ teeFilled[beforePipeIdxOf(teeFilled, i)].vertical
         # teeFilled[afterPipeIdxOf(teeFilled, i)].vertical

\* C22: fillTee puts a synthetic elbow90 with the tee's reference right
\* after a tee_main exactly when the nearest pipe before the tee and the
\* nearest pipe after it both exist and differ in the vertical flag computed
\* from the canonical list; it puts none anywhere else.
C22_ForcedElbow ==
    /\ \A i \in 1..Len(teeFilled) :
          teeFilled[i].type = "tee_main" => (ElbowAfter(i) <=> VerticalityChangesAt(i))
    /\ \A i \in 2..Len(teeFilled) :
          (teeFilled[i].type = "elbow90" /\ teeFilled[i].src = 0)
              => teeFilled[i - 1].type = "tee_main"

---------------------------------------------------------------------------
(* fillCapacity: the flow that reaches the discharge.                      *)

\* the capacity an outlet states, 0 when it states none
StatedCapacity(c) == IF IsNumber(c.capacity) THEN c.capacity ELSE 0

\* the sum of the stated capacities of the outlets among comps[1..n]
RECURSIVE OutletDemand(_, _)
OutletDemand(comps, n) ==
    IF n = 0 THEN 0
    ELSE OutletDemand(comps, n - 1)
         + (IF comps[n].type = "outlet" THEN StatedCapacity(comps[n]) ELSE 0)

\* C23: when the list handed to fillCapacity starts with the discharge, the
\* capacity it gives the discharge is the sum of the stated capacities of
\* all outlets of the list, and every outlet has exactly its own stated
\* capacity, 0 when it stated none.
C23_GlobalFlowConservation ==
    (Len(teeFilled) > 0 /\ teeFilled[1].type = "discharge") =>
        /\ capacityFilled[1].capacity = OutletDemand(teeFilled, Len(teeFilled))
        /\ \A i \in 1..Len(capacityFilled) :
              capacityFilled[i].type = "outlet" =>
                  capacityFilled[i].capacity = StatedCapacity(teeFilled[i])

---------------------------------------------------------------------------
(* normalize: elevation head.                                              *)

IsVerticalPipe(row) == row.item = "pipe" /\ row.vertical

\* total length of the vertical pipes among path[1..n]
RECURSIVE VerticalLength(_, _)
VerticalLength(path, n) ==
    IF n = 0 THEN 0
    ELSE VerticalLength(path, n - 1)
         + (IF IsVerticalPipe(path[n]) THEN path[n].L ELSE 0)

RECURSIVE SumHeadLoss(_, _)
SumHeadLoss(path, n) ==
    IF n = 0 THEN VZero ELSE VAdd(SumHeadLoss(path, n - 1), path[n].delta_H)

\* prev + (h[from] - h[to]) + (vp[from] - vp[to])
PlusDrops(prev, path, from, to) ==
    VAdd(VAdd(prev, VOne(R(path[from].h - path[to].h, 1))),
         VC(RSub(path[from].vp, path[to].vp)))

\* C25: in every returned path the first row has delta_P = 0, every later row
\* has delta_P[i] = delta_P[i-1] + delta_H[i-1] + (h[i-1] - h[i])
\* + (vp[i-1] - vp[i]), and so delta_P[i] is the sum of delta_H over the rows
\* before i plus (h[0] - h[i]) plus (vp[0] - vp[i]): a value computed from the
\* rows of the same path alone.
C25_PressureAccumulation ==
    \A p \in 1..Len(rows) :
        /\ Len(rows[p]) > 0 => rows[p][1].delta_P = VZero
        /\ \A i \in 2..Len(rows[p]) :
               /\ rows[p][i].delta_P
                    = PlusDrops(VAdd(rows[p][i - 1].delta_P, rows[p][i - 1].delta_H),
                                rows[p], i - 1, i)
               /\ rows[p][i].delta_P
                    = PlusDrops(SumHeadLoss(rows[p], i - 1), rows[p], 1, i)

\* C25 witness: a row past the second whose pressure has an elevation part
\* and a friction part, right after a change of velocity head
C25_Witness ==
    \E p \in 1..Len(rows) :
        \E i \in 3..Len(rows[p]) :
            /\ ~RIsZero(rows[p][i].delta_P.one)
            /\ DOMAIN rows[p][i].delta_P.cF /= {}
            /\ rows[p][i - 1].vp /= rows[p][i].vp
            /\ ~VIsZero(rows[p][i - 1].delta_H)

\* a = 1, kred = 0, ktotal = 1 on a discharge row
DischargeCoefficients(row) ==
    /\ row.a = R(1, 1)
    /\ row.kred = R(0, 1)
    /\ row.ktotal = [minor |-> R(1, 1), major |-> R(0, 1)]

\* ktotal = f * (L / di) + 0.2 * elbow + kred + ktee, the first term 0 when
\* di = 0, from the fields of the row itself
LossFormula(row) ==
    /\ row.ktotal.major
         = (IF row.di = 0 \/ row.f = "zero" THEN R(0, 1) ELSE R(row.L, 1))
    /\ row.ktotal.minor = RAdd(RAdd(R(2 * row.elbow, 10), row.kred), row.ktee)

\* C26: every returned row whose item is discharge has a = 1, kred = 0,
\* ktotal = 1 and delta_H = vp, whatever the diameters of its neighbours;
\* every other row has ktotal = f * (L / di) + 0.2 * elbow + kred + ktee, the
\* first term being 0 when di = 0.
C26_DischargeReference ==
    \A p \in 1..Len(rows) :
        \A i \in 1..Len(rows[p]) :
            IF rows[p][i].item = "discharge"
            THEN DischargeCoefficients(rows[p][i])
                 /\ rows[p][i].delta_H = VC(rows[p][i].vp)
            ELSE LossFormula(rows[p][i])

\* C30: within a single returned path no two rows carry the same index, the
\* rows of synthetic reducer, elbow and tee_side nodes included: an index
\* identifies at most one row of the path.
C30_IndexUniqueInPath ==
    \A p \in 1..Len(rows) :
        \A i, j \in 1..Len(rows[p]) :
            rows[p][i].index = rows[p][j].index => i = j

\* a is an initial part of b
IsPrefix(a, b) == Len(a) <= Len(b) /\ SubSeq(b, 1, Len(a)) = a

\* a click of drawing mode that removes no component: a first click, a
\* resumption from an existing node, a new segment from the current node
DrawStep ==
    /\ drawingEnabled
    /\ drawingEnabled'
    /\ \A i \in 1..Len(nodes) : findNode(nodes', nodes[i].id) /= 0
    /\ \A k \in 1..Len(edges) : \E j \in 1..Len(edges') : edges'[j].id = edges[k].id

\* C27: stable numbering under drawing.  A draw step (first click, resuming
\* from an existing node, continuing from the current node) leaves every
\* component that is already drawn at its position in the canonical
\* component order, and puts what it adds after them: the order before the
\* step is an initial part of the order after it.
C27_StableNumbering ==
    [][DrawStep => IsPrefix(canonicalOrder(nodes, edges, componentOrder),
                            canonicalOrder(nodes', edges', componentOrder'))]_vars

\* nodes, edges and componentOrder as one value
Canvas == Snapshot(nodes, edges, componentOrder)

\* C28: single-step undo and redo.  Ctrl+Z after a draw or delete operation
\* restores nodes, edges and componentOrder to what they were before the
\* most recent operation that changed them; a second Ctrl+Z does nothing;
\* Ctrl+Y right after a Ctrl+Z that restored a snapshot returns the three to
\* what they were before that Ctrl+Z; an operation that changes the canvas
\* leaves no redo target.
C28_SingleStepUndoRedo ==
    [][/\ (Undo /\ log.lastKey = "edit" /\ log.changedFrom.taken)
              => Canvas' = log.changedFrom
       /\ (Undo /\ log.lastKey \in {"undo", "undo-none"})
              => UNCHANGED <<nodes, edges, componentOrder>>
       /\ (Redo /\ log.lastKey = "undo")
              => Canvas' = log.undoneFrom
       /\ (log'.lastKey = "edit" /\ Canvas' /= Canvas)
              => ~redoSnapshot'.taken]_vars

\* C29: the auth callback navigates at most once.  In one mount of the
\* callback page router.push is called at most once, and no call comes
\* after the cleanup of the effect has run.
C29_NavigatesAtMostOnce ==
    /\ Len(pushed) <= 1
    /\ \A i \in 1..Len(pushed) : ~pushed[i].afterCleanup

====
